---- MODULE Spec2Model ----
(***************************************************************************)
(* TaskFlow chat orchestration: TodoAgent.process_message and              *)
(* TodoAgent._execute_tool_call (backend/src/agents/todo_agent.py), the    *)
(* tool registry (backend/src/mcp/server.py), the five task tools          *)
(* (backend/src/mcp/tools.py) and the task table they read and write.      *)
(*                                                                         *)
(* Strings the code only stores or compares are TLA+ strings.  Strings     *)
(* the code searches (the user message, exception messages) are tuples of  *)
(* one-character strings, so that lower() and the substring test `in` are  *)
(* computed as the code computes them.                                     *)
(***************************************************************************)
EXTENDS Integers, Sequences, FiniteSets, TLC

\* ------------------------------------------------------------------ bounds
MaxTasks == 3
MaxCalls == 2
MaxOther == 1

\* ------------------------------------------------------------- value sets
Users == {"u1", "u2"}
\* The users whose chat requests are followed; the other user's tasks are
\* what they must not reach.
ChatUsers == {"u1"}
NoUser == "<nobody>"

IdPool == <<"t1", "t2", "t3", "t4", "t5", "t6">>
TaskIds == {IdPool[i] : i \in 1..MaxTasks}
IdIndex(id) == CHOOSE i \in 1..Len(IdPool) : IdPool[i] = id

\* A key that the decoded argument mapping does not contain.
Absent == "<absent>"
\* Python None in a result or a column.
None == "<None>"
\* The empty string, falsy in Python.
Empty == ""

Titles == {"x", "y", "z"}

\* ---------------------------------------------------------------- strings
Upper == <<"A","B","C","D","E","F","G","H","I","J","K","L","M",
           "N","O","P","Q","R","S","T","U","V","W","X","Y","Z">>
LowerCase == <<"a","b","c","d","e","f","g","h","i","j","k","l","m",
               "n","o","p","q","r","s","t","u","v","w","x","y","z">>

\* str.lower() on one character.
LowerChar(c) ==
    IF \E i \in 1..Len(Upper) : Upper[i] = c
    THEN LowerCase[CHOOSE i \in 1..Len(Upper) : Upper[i] = c]
    ELSE c

\* str.lower()
Lower(s) == [i \in 1..Len(s) |-> LowerChar(s[i])]

\* `needle in haystack` on strings.
Contains(haystack, needle) ==
    \E i \in 1..(Len(haystack) - Len(needle) + 1) :
        SubSeq(haystack, i, i + Len(needle) - 1) = needle

\* ----------------------------------------------------------- the registry
MutatingTools == {"update_task", "delete_task", "complete_task"}

\* The signatures of the five handlers that register_task_tools decorates,
\* in the order of decoration: parameter names in declaration order and the
\* parameters that have a default value.
Signatures ==
    << [name |-> "add_task",
        params |-> <<"user_id", "title", "description">>,
        defaults |-> {"description"}],
       [name |-> "list_tasks",
        params |-> <<"user_id", "include_completed">>,
        defaults |-> {"include_completed"}],
       [name |-> "complete_task",
        params |-> <<"user_id", "task_id">>,
        defaults |-> {}],
       [name |-> "delete_task",
        params |-> <<"user_id", "task_id">>,
        defaults |-> {}],
       [name |-> "update_task",
        params |-> <<"user_id", "task_id", "title", "description">>,
        defaults |-> {"title", "description"}] >>

Range(s) == {s[i] : i \in 1..Len(s)}

\* The description _get_parameters_from_func gives a property
\* (f"{param_name} parameter") and the one _get_openai_tools gives user_id.
DerivedDescription == "<name> parameter"
InjectedDescription == "User ID for data isolation (auto-filled, do not ask user)"

\* SimpleMCPRegistry._get_parameters_from_func: every parameter of the
\* signature becomes a property with a description; a parameter without a
\* default is required.
GetParametersFromFunc(sig) ==
    [properties |-> Range(sig.params),
     description |-> [p \in Range(sig.params) |-> DerivedDescription],
     required |-> {p \in Range(sig.params) : p \notin sig.defaults}]

\* Tool(name, description, parameters, handler); the handler is identified
\* by its signature.
MakeTool(sig) ==
    [name |-> sig.name,
     parameters |-> GetParametersFromFunc(sig),
     sig |-> sig]

\* Mutant of RegisterTool: a name that is registered again is removed and
\* added at the end.
RegisterToolAtEnd(reg, sig) ==
    LET kept == {i \in 1..Len(reg) : reg[i].name # sig.name}
        nth(k) == CHOOSE i \in kept : Cardinality({j \in kept : j <= i}) = k
    IN  Append([k \in 1..Cardinality(kept) |-> reg[nth(k)]], MakeTool(sig))

\* SimpleMCPRegistry.tool: self._tools[tool_name] = Tool(...).  A dict keeps
\* the position of a key that is assigned again, and appends a new key.
RegisterTool(reg, sig) ==
    IF \E i \in 1..Len(reg) : reg[i].name = sig.name
    THEN [i \in 1..Len(reg) |->
            IF reg[i].name = sig.name THEN MakeTool(sig) ELSE reg[i]]
    ELSE Append(reg, MakeTool(sig))

RECURSIVE RegisterFrom(_, _)
RegisterFrom(reg, k) ==
    IF k > Len(Signatures) THEN reg
    ELSE RegisterFrom(RegisterTool(reg, Signatures[k]), k + 1)

\* register_task_tools: the five decorated functions, in source order.
RegisterTaskTools(reg) == RegisterFrom(reg, 1)

\* get_mcp_server: registers the task tools on the module-level registry
\* and returns it.
GetMcpServer(reg) == RegisterTaskTools(reg)

ToolNames == {Signatures[i].name : i \in 1..Len(Signatures)}

\* SimpleMCPRegistry.list_tools: list(self._tools.values())
ListTools(reg) == reg

\* SimpleMCPRegistry.get_tool: self._tools.get(name), None for a key the
\* dict does not have; HasTool is the test `if not tool`.
HasTool(reg, name) == \E i \in 1..Len(reg) : reg[i].name = name
GetTool(reg, name) ==
    IF \E i \in 1..Len(reg) : reg[i].name = name
    THEN reg[CHOOSE i \in 1..Len(reg) : reg[i].name = name]
    ELSE None

\* One entry of TodoAgent._get_openai_tools: a copy of the tool's
\* parameters in which the user_id property is set; "required" is created
\* only when the key is missing, so the list derived from the signature is
\* kept as it is.
OpenAITool(tool) ==
    [name |-> tool.name,
     properties |-> tool.parameters.properties \cup {"user_id"},
     required |-> tool.parameters.required]

\* TodoAgent._get_openai_tools
GetOpenAITools(reg) ==
    [i \in 1..Len(ListTools(reg)) |-> OpenAITool(ListTools(reg)[i])]

\* What _get_openai_tools leaves in the registry: tool.parameters.copy()
\* is a shallow copy, so the "properties" dict of the copy is the Tool's
\* own, and properties["user_id"] = {...} is written into it.
SharedProperties(tool) ==
    [tool EXCEPT !.parameters.description =
        [p \in DOMAIN tool.parameters.description \cup {"user_id"} |->
            IF p = "user_id" THEN InjectedDescription
            ELSE tool.parameters.description[p]],
                 !.parameters.properties = @ \cup {"user_id"}]

RegistryAfterGetOpenAITools(reg) ==
    [i \in 1..Len(reg) |-> SharedProperties(reg[i])]

\* --------------------------------------------------------- the task table
\* One row of TaskTable per identifier.  st is "free" for an identifier
\* uuid4 has not produced yet, "live" for a stored row and "deleted" for a
\* row that session.delete removed (uuid4 does not produce it again).
\* completed_at is the value of datetime.utcnow() at completion; NoTime is
\* the column's NULL.
VARIABLE clock     \* datetime.utcnow(), in ticks

NoTime == 0
FreeRow == [st |-> "free", owner |-> NoUser, title |-> None,
            description |-> None, completed |-> FALSE,
              completed_at |-> NoTime]

IsLive(s, id) == id \in TaskIds /\ s[id].st = "live"

\* uuid4(): an identifier no row has had.
HasFreshId(s) == \E id \in TaskIds : s[id].st = "free"
FreshId(s) ==
    CHOOSE id \in TaskIds :
        /\ s[id].st = "free"
        /\ \A other \in TaskIds :
              s[other].st = "free" => IdIndex(id) <= IdIndex(other)

\* UUID(text) succeeds exactly on identifiers; anything else raises
\* ValueError.
IsUUID(text) == text \in Range(IdPool) \cup Users

\* The rows a select returns, in storage order (insertion order).
RECURSIVE SelectFrom(_, _)
SelectFrom(keep, k) ==
    IF k > MaxTasks THEN <<>>
    ELSE (IF IdPool[k] \in keep THEN <<IdPool[k]>> ELSE <<>>)
         \o SelectFrom(keep, k + 1)

\* --------------------------------------------------------------- handlers
\* What a handler returns: the dict's success flag, the fields the agent
\* reads, and the table after the handler's session has committed.
Result(ok, title, tasks, error, s) ==
    [success |-> ok, title |-> title, tasks |-> tasks,
     count |-> Len(tasks), error |-> error, store |-> s]

BadUUID == "badly formed hexadecimal UUID string"
NotFoundOrDenied == "Task not found or access denied"

\* Mutant of add_task: the row is created with completed=True.
add_task_completed(s, user_id, title, description) ==
    IF ~IsUUID(user_id) THEN Result(FALSE, None, <<>>, BadUUID, s)
    ELSE LET id == FreshId(s) IN
         Result(TRUE, title, <<>>, None,
                [s EXCEPT ![id] = [st |-> "live", owner |-> user_id,
                                   title |-> title,
                                   description |-> description,
                                   completed |-> TRUE,
                                   completed_at |-> NoTime]])

\* tools.py add_task
add_task(s, user_id, title, description) ==
    IF ~IsUUID(user_id) THEN Result(FALSE, None, <<>>, BadUUID, s)
    ELSE LET id == FreshId(s) IN
         Result(TRUE, title, <<>>, None,
                [s EXCEPT ![id] = [st |-> "live", owner |-> user_id,
                                   title |-> title,
                                   description |-> description,
                                   completed |-> FALSE,
              completed_at |-> NoTime]])

\* Mutant of list_tasks: the select has no where clause on user_id.
list_tasks_unfiltered(s, user_id, include_completed) ==
    LET keep == {id \in TaskIds :
                    /\ s[id].st = "live"
                    /\ (include_completed \/ ~s[id].completed)}
        ids == SelectFrom(keep, 1)
    IN  Result(TRUE, None,
               [i \in 1..Len(ids) |->
                   [id |-> ids[i], title |-> s[ids[i]].title,
                    completed |-> s[ids[i]].completed]],
               None, s)

\* tools.py list_tasks
list_tasks(s, user_id, include_completed) ==
    IF ~IsUUID(user_id) THEN Result(FALSE, None, <<>>, BadUUID, s)
    ELSE LET keep == {id \in TaskIds :
                         /\ s[id].st = "live"
                         /\ s[id].owner = user_id
                         /\ (include_completed \/ ~s[id].completed)}
             ids == SelectFrom(keep, 1)
         IN  Result(TRUE, None,
                    [i \in 1..Len(ids) |->
                        [id |-> ids[i], title |-> s[ids[i]].title,
                         completed |-> s[ids[i]].completed]],
                    None, s)

\* str(e) of the exception a session raises when the database is down.
DatabaseDown == "OperationalError: could not connect to server"

\* tools.py list_tasks, the except clause: no tasks, count 0, success False.
list_tasks_failed(s, error) == Result(FALSE, None, <<>>, error, s)

\* The query of complete_task, delete_task and update_task:
\* filter(TaskTable.id == UUID(task_id), TaskTable.user_id == UUID(user_id))
OwnedRow(s, user_id, task_id) == IsLive(s, task_id) /\ s[task_id].owner = user_id

\* Mutant of complete_task: the row is found and reported completed, but
\* session.commit is missing.
complete_task_uncommitted(s, user_id, task_id) ==
    IF ~IsUUID(task_id) \/ ~IsUUID(user_id)
    THEN Result(FALSE, None, <<>>, BadUUID, s)
    ELSE IF ~OwnedRow(s, user_id, task_id)
    THEN Result(FALSE, None, <<>>, NotFoundOrDenied, s)
    ELSE Result(TRUE, s[task_id].title, <<>>, None, s)

\* tools.py complete_task
complete_task(s, user_id, task_id) ==
    IF ~IsUUID(task_id) \/ ~IsUUID(user_id)
    THEN Result(FALSE, None, <<>>, BadUUID, s)
    ELSE IF ~OwnedRow(s, user_id, task_id)
    THEN Result(FALSE, None, <<>>, NotFoundOrDenied, s)
    ELSE Result(TRUE, s[task_id].title, <<>>, None,
                [s EXCEPT ![task_id].completed = TRUE,
                          ![task_id].completed_at = clock])

\* Mutant of delete_task: the row is found and reported deleted, but
\* session.delete is missing.
delete_task_kept(s, user_id, task_id) ==
    IF ~IsUUID(task_id) \/ ~IsUUID(user_id)
    THEN Result(FALSE, None, <<>>, BadUUID, s)
    ELSE IF ~OwnedRow(s, user_id, task_id)
    THEN Result(FALSE, None, <<>>, NotFoundOrDenied, s)
    ELSE Result(TRUE, s[task_id].title, <<>>, None, s)

\* Mutant of delete_task: the query has no filter on TaskTable.id, and
\* every row it returns is deleted.
delete_task_all_own(s, user_id, task_id) ==
    IF ~IsUUID(task_id) \/ ~IsUUID(user_id)
    THEN Result(FALSE, None, <<>>, BadUUID, s)
    ELSE IF ~OwnedRow(s, user_id, task_id)
    THEN Result(FALSE, None, <<>>, NotFoundOrDenied, s)
    ELSE Result(TRUE, s[task_id].title, <<>>, None,
                [id \in TaskIds |->
                    IF s[id].st = "live" /\ s[id].owner = user_id
                    THEN [FreeRow EXCEPT !.st = "deleted"]
                    ELSE s[id]])

\* tools.py delete_task
delete_task(s, user_id, task_id) ==
    IF ~IsUUID(task_id) \/ ~IsUUID(user_id)
    THEN Result(FALSE, None, <<>>, BadUUID, s)
    ELSE IF ~OwnedRow(s, user_id, task_id)
    THEN Result(FALSE, None, <<>>, NotFoundOrDenied, s)
    ELSE Result(TRUE, s[task_id].title, <<>>, None,
                [s EXCEPT ![task_id] = [FreeRow EXCEPT !.st = "deleted"]])

\* tools.py update_task
update_task(s, user_id, task_id, title, description) ==
    IF ~IsUUID(task_id) \/ ~IsUUID(user_id)
    THEN Result(FALSE, None, <<>>, BadUUID, s)
    ELSE IF ~OwnedRow(s, user_id, task_id)
    THEN Result(FALSE, None, <<>>, NotFoundOrDenied, s)
    ELSE LET t1 == IF title # None THEN title ELSE s[task_id].title
             d1 == IF description # None
                   THEN (IF description # Empty THEN description ELSE None)
                   ELSE s[task_id].description
         IN  Result(TRUE, t1, <<>>, None,
                    [s EXCEPT ![task_id].title = t1,
                              ![task_id].description = d1])

\* ------------------------------------------------- calling a handler
\* The decoded argument mapping, one field per key the model can send;
\* Absent marks a key the mapping does not have.
ArgKeys == {"user_id", "task_id", "title", "description", "include_completed"}
Keys(args) == {k \in ArgKeys : args[k] # Absent}

\* tool.handler(**function_args) binds the keys to the signature: a missing
\* parameter without default, or a key that is no parameter, raises
\* TypeError before the body runs.
Binds(sig, args) ==
    /\ {p \in Range(sig.params) : p \notin sig.defaults} \subseteq Keys(args)
    /\ Keys(args) \subseteq Range(sig.params)

\* A parameter's value: the key's value, or the signature's default.
Arg(args, key, default) == IF args[key] # Absent THEN args[key] ELSE default

\* await tool.handler(**function_args) for a call that binds.
CallHandler(name, args, s) ==
    CASE name = "add_task" ->
            add_task(s, args.user_id, args.title, Arg(args, "description", None))
      [] name = "list_tasks" ->
            list_tasks(s, args.user_id,
                       Arg(args, "include_completed", "True") # "False")
      [] name = "complete_task" -> complete_task(s, args.user_id, args.task_id)
      [] name = "delete_task" -> delete_task(s, args.user_id, args.task_id)
      [] name = "update_task" ->
            update_task(s, args.user_id, args.task_id,
                        Arg(args, "title", None), Arg(args, "description", None))

\* ------------------------------------------------- outcomes of a tool call
\* The string _execute_tool_call returns, as the sentence chosen (kind) and
\* the values formatted into it; a listing is one entry per line, the title
\* and whether the line ends with the check mark.
Outcome(kind, tool, title, listing, error) ==
    [kind |-> kind, tool |-> tool, title |-> title,
     listing |-> listing, error |-> error]

\* "Error: Tool '{function_name}' not found"
ToolNotFound(name) == Outcome("tool_not_found", name, None, <<>>, None)

\* Mutant of GuardRejects: the bare sentence, without the listing.
GuardRejectsBare(name, tasks) == Outcome("task_not_found", name, None, <<>>, None)

\* The guard's two sentences: "Error: Task not found. Here are your current
\* tasks:" with one "Task {i+1}: {title}" line per fetched task, or "Error:
\* You don't have any tasks yet. Create some tasks first!"
GuardRejects(name, tasks) ==
    IF tasks # <<>>
    THEN Outcome("task_not_found", name, None,
                 [i \in 1..Len(tasks) |->
                     [title |-> tasks[i].title, mark |-> FALSE]], None)
    ELSE Outcome("no_tasks", name, None, <<>>, None)

\* Mutant of FormatResult: result.get("success") is not tested, and the
\* sentence of the tool's success is returned for every dict.
FormatResultIgnoringFlag(name, result) ==
    CASE name = "add_task" ->
            Outcome("created", name, result.title, <<>>, None)
      [] name = "complete_task" ->
            Outcome("completed", name, result.title, <<>>, None)
      [] name = "delete_task" ->
            Outcome("deleted", name, result.title, <<>>, None)
      [] name = "update_task" ->
            Outcome("updated", name, None, <<>>, None)
      [] OTHER ->
            IF result.count = 0
            THEN Outcome("list_empty", name, None, <<>>, None)
            ELSE Outcome("listed", name, None,
                         [i \in 1..Len(result.tasks) |->
                             [title |-> result.tasks[i].title,
                              mark |-> result.tasks[i].completed]],
                         None)

\* Lines 302-330: the sentence for the dict a handler returned.
FormatResult(name, result) ==
    IF result.success
    THEN CASE name = "add_task" ->
                 Outcome("created", name, result.title, <<>>, None)
           [] name = "complete_task" ->
                 Outcome("completed", name, result.title, <<>>, None)
           [] name = "delete_task" ->
                 Outcome("deleted", name, result.title, <<>>, None)
           [] name = "update_task" ->
                 Outcome("updated", name, None, <<>>, None)
           [] name = "list_tasks" ->
                 IF result.count = 0
                 THEN Outcome("list_empty", name, None, <<>>, None)
                 ELSE Outcome("listed", name, None,
                              [i \in 1..Len(result.tasks) |->
                                  [title |-> result.tasks[i].title,
                                   mark |-> result.tasks[i].completed]],
                              None)
           [] OTHER -> Outcome("operation_completed", name, None, <<>>, None)
    ELSE Outcome("handler_error", name, None, <<>>, result.error)

\* Lines 332-334: "Error executing {function_name}: {str(e)}"
ExecutionError(name, message) == Outcome("exec_error", name, None, <<>>, message)

\* The sentences that report success (they start with a check mark or
\* with the list); every other sentence starts with "Error".
SuccessKinds == {"created", "completed", "deleted", "updated", "listed",
                 "list_empty", "operation_completed"}

\* TypeError raised by the call when the keys do not bind.
BindError == "TypeError: handler() got unexpected or missing arguments"

\* ---------------------------------------------------- the context preload
MsgAdd == <<"a","d","d"," ","m","i","l","k">>
MsgDelete == <<"D","e","l","e","t","e"," ","1">>
UserMessages == {MsgAdd, MsgDelete}

\* update_delete_keywords
UpdateDeleteKeywords ==
    { <<"u","p","d","a","t","e">>, <<"d","e","l","e","t","e">>,
      <<"r","e","m","o","v","e">>, <<"c","h","a","n","g","e">>,
      <<"m","o","d","i","f","y">>, <<"c","o","m","p","l","e","t","e">>,
      <<"f","i","n","i","s","h">>, <<"m","a","r","k">> }

\* Mutant of NeedsTaskList: the keywords are looked for in the message as
\* written.
NeedsTaskListExact(user_message) ==
    \E keyword \in UpdateDeleteKeywords : Contains(user_message, keyword)

\* needs_task_list = any(keyword in user_message.lower() for keyword in ...)
NeedsTaskList(user_message) ==
    \E keyword \in UpdateDeleteKeywords : Contains(Lower(user_message), keyword)

\* The system message: SYSTEM_PROMPT, and after a preload the lines
\* "Task {i+1}: ID=..., Title='...', Completed=..." appended to it.
SystemMessage(tasks) ==
    [role |-> "system",
     content |-> [prompt |-> "SYSTEM_PROMPT",
                  tasks |-> [i \in 1..Len(tasks) |->
                                [index |-> i, id |-> tasks[i].id,
                                 title |-> tasks[i].title,
                                 completed |-> tasks[i].completed]]]]

\* ------------------------------------------------------ the error classifier
\* An exception: its type name and str(e).
Exc(type, msg) == [type |-> type, msg |-> msg]

\* What process_message yields, as the sentence chosen (kind), the text
\* formatted into it, and the exception message formatted into it.
Chunk(kind, text, detail) == [kind |-> kind, text |-> text, detail |-> detail]

\* Line 242: "Connection" in error_msg or "connect" in error_msg.lower()
ConnectivityMarker(msg) ==
    \/ Contains(msg, <<"C","o","n","n","e","c","t","i","o","n">>)
    \/ Contains(Lower(msg), <<"c","o","n","n","e","c","t">>)

\* Line 244: "401" in error_msg or "Unauthorized" in error_msg or
\* "authentication" in error_msg.lower()
AuthenticationMarker(msg) ==
    \/ Contains(msg, <<"4","0","1">>)
    \/ Contains(msg, <<"U","n","a","u","t","h","o","r","i","z","e","d">>)
    \/ Contains(Lower(msg),
                <<"a","u","t","h","e","n","t","i","c","a","t","i","o","n">>)

\* Line 246: "rate" in error_msg.lower() or "limit" in error_msg.lower()
RateLimitMarker(msg) ==
    \/ Contains(Lower(msg), <<"r","a","t","e">>)
    \/ Contains(Lower(msg), <<"l","i","m","i","t">>)

\* Mutant of Classify: every exception gets the generic sentence.
ClassifyGeneric(e) == Chunk("generic", e.type, e.msg)

\* Mutant of Classify: the authentication markers are tested before the
\* connectivity markers.
ClassifyAuthFirst(e) ==
    IF AuthenticationMarker(e.msg)
    THEN Chunk("credentials", None, <<>>)
    ELSE IF ConnectivityMarker(e.msg)
    THEN Chunk("connection", None, <<>>)
    ELSE IF RateLimitMarker(e.msg)
    THEN Chunk("rate_limit", None, <<>>)
    ELSE Chunk("generic", e.type, e.msg)

\* Lines 236-249
Classify(e) ==
    IF ConnectivityMarker(e.msg)
    THEN Chunk("connection", None, <<>>)
    ELSE IF AuthenticationMarker(e.msg)
    THEN Chunk("credentials", None, <<>>)
    ELSE IF RateLimitMarker(e.msg)
    THEN Chunk("rate_limit", None, <<>>)
    ELSE Chunk("generic", e.type, e.msg)

\* Exceptions the completion provider's client raises.
ProviderErrors ==
    { Exc("APIConnectionError",
          <<"C","o","n","n","e","c","t","i","o","n"," ","e","r","r","o","r">>),
      Exc("APITimeoutError",
          <<"c","a","n","n","o","t"," ","c","o","n","n","e","c","t">>),
      Exc("APIError", <<"b","o","o","m">>),
      Exc("APIError", <<"o","o","p","s">>) }

\* ------------------------------------------- what the provider can reply
CallIdPool == <<"call_1", "call_2", "call_3", "call_4", "call_5">>

\* The names a reply can ask for: the registered tools and one that is not.
RequestedNames == ToolNames \cup {"no_such_tool"}

\* tool_calls of a reply: up to MaxCalls invocations, each with a
\* correlation identifier and a function name; the argument payload is an
\* opaque string until json.loads decodes it.
ToolCallLists ==
    UNION { [1..n -> RequestedNames] : n \in 0..MaxCalls }

ToolCalls(names) ==
    [i \in 1..Len(names) |-> [id |-> CallIdPool[i], name |-> names[i]]]

Contents == {Empty, "text"}

\* What json.loads(tool_call.function.arguments) gives: a dict, a value
\* that is no dict, or JSONDecodeError.
ArgObjects ==
    [user_id : {Absent, "u2"},
     task_id : {Absent, Empty} \cup TaskIds,
     title : {Absent, "z"},
     description : {Absent},
     include_completed : {Absent}]

\* The payloads followed for an invocation of `name`: the model fills in
\* keys of the schema it was sent for that tool (any of them, with any of
\* the values above, user_id included); for a name it made up, user_id only.
PayloadsFor(catalog, name) ==
    {a \in ArgObjects :
        \A k \in Keys(a) :
            \/ k = "user_id"
            \/ \E i \in 1..Len(catalog) :
                  catalog[i].name = name /\ k \in catalog[i].properties}

DecodeErrors ==
    { Exc("JSONDecodeError",
          <<"E","x","p","e","c","t","i","n","g"," ","v","a","l","u","e">>),
      Exc("JSONDecodeError",
          <<"E","x","p","e","c","t","i","n","g"," ",","," ",
            "d","e","l","i","m","i","t","e","r">>) }

\* function_args["user_id"] = ... on a decoded list, string, number or null.
ItemAssignmentError ==
    Exc("TypeError",
        <<"d","o","e","s"," ","n","o","t"," ","s","u","p","p","o","r","t"," ",
          "i","t","e","m"," ","a","s","s","i","g","n","m","e","n","t">>)

\* ------------------------------------------------------------------ state
VARIABLES
    registry,      \* mcp_server._tools, in insertion order
    store,         \* the tasks table
    pc,            \* where the request being served is
    caller,        \* self.user_id of the agent serving the request
    tools,         \* self.tools, the catalog built by __init__
    messages,      \* the messages list of process_message
    reply,         \* message of the first completion's choice
    idx,           \* position of the for loop over message.tool_calls
    toolMessages,  \* tool_messages
    pending,       \* function_args of the invocation in progress
    supplied,      \* the user_id the payload decoded last carried
    response,      \* the chunks process_message has yielded
    caught,        \* the exception the except clause of process_message caught
    trace,         \* the turn's provider calls and handler calls, in order
    raced,         \* another request wrote the table since the guard's fetch
    otherOps,      \* writes of other requests so far
    conversation,  \* the MessageTable rows of the conversation of the request
    conversations, \* ConversationTable, each row with its MessageTable rows
    request,       \* the chat request received last
    conversation_id, \* conversation_id of chat_endpoint
    status,        \* HTTP status of the last chat response, 0 while none
    reset_tokens,  \* PASSWORD_RESET_TOKENS
    issued,        \* how many reset tokens uuid4 has produced
    used,          \* the tokens of the successful reset-password calls, in order
    last           \* the last password-reset call and its result

vars == <<registry, store, pc, caller, tools, messages, reply, idx,
          toolMessages, pending, supplied, response, caught, trace, raced,
          otherOps, clock, conversation,
          conversations, request, conversation_id, status,
          reset_tokens, issued, used, last>>

\* What only the password-reset endpoints read and write.
authVars == <<reset_tokens, issued, used, last>>

\* What only chat_endpoint reads and writes.
chatVars == <<conversations, request, conversation_id, status>>

\* message of line 193; assigned is FALSE until a reply has arrived.
NoReply == [assigned |-> FALSE, content |-> Empty, tool_calls |-> <<>>]
NoArgs == [user_id |-> Absent, task_id |-> Absent, title |-> Absent,
           description |-> Absent, include_completed |-> Absent]

\* caught before the except clause has run; site is the value of pc at
\* which the exception was raised.
NoError == [site |-> None, exc |-> Exc(None, <<>>)]

\* One entry of trace.  ev is "completion" or "handler".  phase is "first"
\* or "followup" for a completion, and for a handler "preload" (line 169),
\* "guard" (line 284) or "tool" (line 300).  call is the position of the
\* invocation being served (0 outside the tool round).  user_id is the
\* user_id the handler was called with and task_id the invocation's
\* task_id.  flag is, for a completion, whether the tool catalog was sent;
\* for a guard fetch, whether task_id was among the fetched ids; for a
\* tool call, whether the arguments bound and the handler's body ran.
Event(ev, phase, call, tool, user_id, task_id, flag) ==
    [ev |-> ev, phase |-> phase, call |-> call, tool |-> tool,
     user_id |-> user_id, task_id |-> task_id, flag |-> flag]

CompletionEvent(phase, withTools) ==
    Event("completion", phase, 0, None, None, None, withTools)

\* The table the service starts with: one task of each user.
InitialStore ==
    [id \in TaskIds |->
        IF id = IdPool[1]
        THEN [st |-> "live", owner |-> "u1", title |-> "x",
              description |-> None, completed |-> FALSE,
              completed_at |-> NoTime]
        ELSE IF id = IdPool[2]
        THEN [st |-> "live", owner |-> "u2", title |-> "y",
              description |-> None, completed |-> FALSE,
              completed_at |-> NoTime]
        ELSE FreeRow]

\* The reset tokens uuid4 produces, in this order.
TokenPool == <<"k1", "k2", "k3">>
ResetTokens == Range(TokenPool)

\* A key PASSWORD_RESET_TOKENS does not have.
NoToken == [st |-> "absent", email |-> None, expires |-> NoTime]

NoCall == [op |-> None, token |-> None, ok |-> FALSE, at |-> NoTime]

\* ConversationTable.id values; uuid4 produces them in this order.
ConvPool == <<"c1", "c2", "c3">>
ConvIds == Range(ConvPool)

NoConversation == [st |-> "free", owner |-> NoUser, rows |-> <<>>]

\* The conversations the service starts with: one of u1 with an earlier
\* exchange, one of u2 without messages.
InitialConversations ==
    [c \in ConvIds |->
        IF c = "c1"
        THEN [st |-> "live", owner |-> "u1",
              rows |-> << [role |-> "user", content |-> <<"h","i">>],
                          [role |-> "assistant", content |-> <<"h","e","l","l","o">>] >>]
        ELSE IF c = "c2"
        THEN [st |-> "live", owner |-> "u2", rows |-> <<>>]
        ELSE NoConversation]

NoRequest == [user_id |-> NoUser, current_user |-> NoUser,
              conversation_id |-> None, message |-> <<>>]

\* After startup_event: mcp_service.initialize() has called get_mcp_server
\* on the empty module-level registry; no request is being served.
Init ==
    /\ registry = GetMcpServer(<<>>)
    /\ store = InitialStore
    /\ pc = "idle"
    /\ caller = NoUser
    /\ tools = <<>>
    /\ messages = <<>>
    /\ reply = NoReply
    /\ idx = 0
    /\ toolMessages = <<>>
    /\ pending = NoArgs
    /\ supplied = Absent
    /\ response = <<>>
    /\ caught = NoError
    /\ trace = <<>>
    /\ raced = FALSE
    /\ otherOps = 0
    /\ clock = 1
    /\ conversation = <<>>
    /\ conversations = InitialConversations
    /\ request = NoRequest
    /\ conversation_id = None
    /\ status = 0
    /\ reset_tokens = [t \in ResetTokens |-> NoToken]
    /\ issued = 0
    /\ used = <<>>
    /\ last = NoCall

\* ---------------------------------------------------------------- actions
\* chat_endpoint creates the agent (TodoAgent.__init__) and process_message
\* runs up to its first completion request: the messages list is built and
\* the preload fetches the caller's tasks when the message needs them.
StartTurnWith(u, m, conversation_history) ==
    /\ pc = "idle"
    /\ LET reg == GetMcpServer(registry)
           preload == NeedsTaskList(m) /\ HasTool(reg, "list_tasks")
           tasks_result == list_tasks(store, u, TRUE)
           enhanced == preload /\ tasks_result.success
                               /\ tasks_result.tasks # <<>>
       IN  /\ registry' = RegistryAfterGetOpenAITools(reg)
           /\ tools' = GetOpenAITools(reg)
           /\ messages' =
                 << SystemMessage(IF enhanced THEN tasks_result.tasks ELSE <<>>) >>
                 \o conversation_history
                 \o << [role |-> "user", content |-> m] >>
           /\ trace' =
                 IF preload
                 THEN << Event("handler", "preload", 0, "list_tasks", u, None, TRUE) >>
                 ELSE <<>>
    /\ caller' = u
    /\ pc' = "first"
    /\ UNCHANGED <<store, reply, idx, toolMessages, pending, supplied,
                   response, caught, raced, otherOps,
                   clock, conversation>>

\* The same for a conversation without earlier messages.
StartTurn(u, m) ==
    /\ StartTurnWith(u, m, <<>>)
    /\ UNCHANGED <<chatVars, authVars>>

\* The except clause of process_message: the classified sentence is
\* yielded and the generator ends.
Fails(e) ==
    /\ response' = Append(response, Classify(e))
    /\ caught' = [site |-> pc, exc |-> e]
    /\ pc' = "done"

\* The number of add_task invocations of a reply; each may produce an
\* identifier, and the identifier pool of the model is finite.
Adds(names) == Cardinality({i \in 1..Len(names) : names[i] = "add_task"})
FreeCount(s) == Cardinality({id \in TaskIds : s[id].st = "free"})

\* client.chat.completions.create(messages=messages, tools=self.tools,
\* tool_choice="auto", ...) of line 182
FirstRequest(msgs, catalog) ==
    [messages |-> msgs, tools |-> catalog, tool_choice |-> "auto"]

\* Mutant of FollowUpRequest: the request of line 182 is repeated.
FollowUpRequestWithTools(msgs, catalog) ==
    [messages |-> msgs, tools |-> catalog, tool_choice |-> "auto"]

\* client.chat.completions.create(messages=messages, ...) of line 219: no
\* tools and no tool_choice are passed.
FollowUpRequest(msgs, catalog) ==
    [messages |-> msgs, tools |-> <<>>, tool_choice |-> None]

\* Mutant of AfterFirstReply: the branch for a message without tool calls
\* raises outside the try, and the exception leaves process_message.
AfterFirstReplyRaises(message) ==
    IF message.tool_calls # <<>> THEN "exec" ELSE "raised"

\* Mutant of AfterFirstReply: the follow-up request is made for every
\* reply.
AfterFirstReplyFollowUp(message) ==
    IF message.tool_calls # <<>> THEN "exec" ELSE "followup"

\* Lines 196-234: a message with tool calls starts the tool round, which
\* ends in the follow-up request; any other message is answered at once.
AfterFirstReply(message) ==
    IF message.tool_calls # <<>> THEN "exec" ELSE "done"

\* Mutant of DirectResponse: the message's content is yielded as it is.
DirectResponseAsIs(message) == Chunk("content", message.content, <<>>)

\* Lines 229-234: the text of a message without tool calls, or the fixed
\* sentence "I understand. How can I help you with your tasks?"
DirectResponse(message) ==
    IF message.content # Empty
    THEN Chunk("content", message.content, <<>>)
    ELSE Chunk("fallback", None, <<>>)

\* Lines 180-234 up to the tool round: the first completion request, with
\* the tool catalog, raises or returns a message.
FirstCompletion ==
    /\ pc = "first"
    /\ trace' = Append(trace, CompletionEvent("first",
                                    FirstRequest(messages, tools).tools # <<>>))
    /\ \/ \E e \in ProviderErrors :
             /\ Fails(e)
             /\ UNCHANGED <<reply, idx>>
       \/ \E names \in ToolCallLists, content \in Contents :
             /\ Adds(names) <= FreeCount(store)
             /\ names # <<>> => content = Empty
             /\ reply' = [assigned |-> TRUE, content |-> content,
                          tool_calls |-> ToolCalls(names)]
             /\ pc' = AfterFirstReply(reply')
             /\ UNCHANGED caught
             /\ IF names # <<>>
                THEN /\ idx' = 1
                     /\ UNCHANGED response
                ELSE /\ idx' = 0
                     /\ response' = Append(response, DirectResponse(reply'))
    /\ UNCHANGED <<registry, store, caller, tools, messages, toolMessages,
                   pending, supplied, raced, otherOps,
                   clock, conversation>>
    /\ UNCHANGED <<chatVars, authVars>>

\* Mutant of InjectUserId: user_id is filled in only when the payload has
\* none.
InjectUserIdIfMissing(args, user_id) ==
    IF args.user_id = Absent THEN [args EXCEPT !.user_id = user_id] ELSE args

\* Line 267: function_args["user_id"] = str(self.user_id)
InjectUserId(args, user_id) == [args EXCEPT !.user_id = user_id]

\* `if task_id:` on function_args.get("task_id")
Truthy(value) == value \notin {Absent, Empty}

\* Mutant of IsGuarded: the list of the comment on line 278, without
\* complete_task.
IsGuardedUpdateDelete(name) == name \in {"update_task", "delete_task"}

\* Line 279: the tools whose task_id is validated first.
IsGuarded(name) == name \in MutatingTools

\* valid_task_ids = [t["id"] for t in tasks_result.get("tasks", [])]
ValidTaskIds(tasks_result) ==
    {tasks_result.tasks[i].id : i \in 1..Len(tasks_result.tasks)}

\* The for loop of lines 199-206 takes what _execute_tool_call returned:
\* a tool message with the invocation's id is appended and the loop goes
\* on, or ends and the follow-up request is next.
ToolMessage(call, outcome) ==
    [role |-> "tool", tool_call_id |-> call.id, content |-> outcome]

NextPosition(i, n) == IF i < n THEN i + 1 ELSE 0

Returns(outcome) ==
    /\ toolMessages' = Append(toolMessages, ToolMessage(reply.tool_calls[idx], outcome))
    /\ idx' = NextPosition(idx, Len(reply.tool_calls))
    /\ pc' = IF idx' # 0 THEN "exec" ELSE "followup"
    /\ pending' = NoArgs
    /\ UNCHANGED response

\* Mutant of GuardFetch: when the system message carries the preloaded
\* listing, the guard takes the tasks from it instead of fetching them.
GuardFetchPreloaded(s, user_id) ==
    IF messages[1].content.tasks # <<>>
    THEN Result(TRUE, None,
                [i \in 1..Len(messages[1].content.tasks) |->
                    [id |-> messages[1].content.tasks[i].id,
                     title |-> messages[1].content.tasks[i].title,
                     completed |-> messages[1].content.tasks[i].completed]],
                None, s)
    ELSE list_tasks(s, user_id, TRUE)

\* Lines 283-284: tasks_result = await list_tool.handler(user_id=...,
\* include_completed=True), made inside every guarded invocation.
GuardFetch(s, user_id) == list_tasks(s, user_id, TRUE)

\* Mutant of TableAfter: the handler's session is not committed before the
\* next invocation reads the table.
TableAfterUncommitted(result) == store

\* session.commit() inside the handler's own `with Session(engine)`: the
\* table every later session reads is the one the handler left.
TableAfter(result) == result.store

\* Lines 299-334: the handler is called with the arguments; its dict is
\* turned into a sentence, and an exception of the call is caught and
\* turned into one.
Invoke(name, args) ==
    LET binds == Binds(GetTool(registry, name).sig, args)
        result == CallHandler(name, args, store)
    IN  /\ trace' = Append(trace, Event("handler", "tool", idx, name,
                                        args.user_id, args.task_id, binds))
        /\ IF binds
           THEN /\ store' = TableAfter(result)
                /\ Returns(FormatResult(name, result))
           ELSE /\ UNCHANGED store
                /\ Returns(ExecutionError(name, BindError))

\* Mutant of Member: a fetch that failed lets every task_id pass.
MemberOrFetchFailed(task_id, tasks_result) ==
    ~tasks_result.success \/ task_id \in ValidTaskIds(tasks_result)

\* Line 287: `if task_id not in valid_task_ids`, negated.
Member(task_id, tasks_result) == task_id \in ValidTaskIds(tasks_result)

\* Lines 263-300 for a payload that decoded to a dict; tasks_result is what
\* the guard's fetch returns if the guard runs.
Execute(name, decoded, tasks_result) ==
    LET args == InjectUserId(decoded, caller)
        member == Member(args.task_id, tasks_result)
    IN  /\ supplied' = decoded.user_id
        /\ UNCHANGED caught
        /\ IF ~HasTool(registry, name)
           THEN /\ Returns(ToolNotFound(name))
                /\ UNCHANGED <<store, trace>>
           ELSE IF IsGuarded(name) /\ Truthy(args.task_id)
           THEN /\ trace' = Append(trace,
                      Event("handler", "guard", idx, "list_tasks",
                            caller, args.task_id, member))
                /\ UNCHANGED store
                /\ IF ~member
                   THEN Returns(GuardRejects(name, tasks_result.tasks))
                   ELSE /\ pc' = "handler"
                        /\ pending' = args
                        /\ UNCHANGED <<toolMessages, idx, response>>
           ELSE Invoke(name, args)

\* _execute_tool_call for the invocation at idx: the payload is decoded,
\* user_id is set and the tool is looked up.  For a guarded tool with a
\* task_id the caller's tasks are fetched and the id is looked for among
\* them (lines 278-297); the handler's own session comes after that fetch
\* and is a separate step (GuardedHandler).  Without the fetch the handler
\* is called at once.
ToolCall ==
    /\ pc = "exec"
    /\ raced' = FALSE
    /\ LET name == reply.tool_calls[idx].name IN
       \/ \E e \in DecodeErrors \cup {ItemAssignmentError} :
             /\ Fails(e)
             /\ UNCHANGED <<store, toolMessages, idx, pending, supplied, trace>>
       \/ \E decoded \in PayloadsFor(tools, name) :
             Execute(name, decoded, GuardFetch(store, caller))
    /\ UNCHANGED <<registry, caller, tools, messages, reply, otherOps,
                   clock, conversation>>
    /\ UNCHANGED <<chatVars, authVars>>

\* The same invocation when the database cannot be reached during the
\* guard's fetch: list_tasks catches the exception of its session and
\* returns its failure dict.
ToolCallFetchFails ==
    /\ pc = "exec"
    /\ raced' = FALSE
    /\ LET name == reply.tool_calls[idx].name IN
       \E decoded \in PayloadsFor(tools, name) :
          /\ HasTool(registry, name)
          /\ IsGuarded(name)
          /\ Truthy(decoded.task_id)
          /\ Execute(name, decoded, list_tasks_failed(store, DatabaseDown))
    /\ UNCHANGED <<registry, caller, tools, messages, reply, otherOps,
                   clock, conversation>>
    /\ UNCHANGED <<chatVars, authVars>>

\* _execute_tool_call after the guard found the task_id, lines 299-334.
GuardedHandler ==
    /\ pc = "handler"
    /\ Invoke(reply.tool_calls[idx].name, pending)
    /\ UNCHANGED <<registry, caller, tools, messages, reply, supplied,
                   caught, raced, otherOps,
                   clock, conversation>>
    /\ UNCHANGED <<chatVars, authVars>>

\* Mutant of FollowUpMessages: the tool messages are put before the
\* assistant message.
FollowUpMessagesToolsFirst(msgs, message, tool_messages) ==
    msgs \o tool_messages
         \o << [role |-> "assistant", content |-> message.content,
                tool_calls |-> message.tool_calls] >>

\* Lines 208-216: messages.append(assistant message with the tool calls),
\* messages.extend(tool_messages)
FollowUpMessages(msgs, message, tool_messages) ==
    msgs \o << [role |-> "assistant", content |-> message.content,
                tool_calls |-> message.tool_calls] >>
         \o tool_messages

\* Lines 208-227: the assistant message and the tool messages are appended
\* and the follow-up request is made; tool calls its reply may carry are
\* not read.
FollowUp ==
    /\ pc = "followup"
    /\ messages' = FollowUpMessages(messages, reply, toolMessages)
    /\ trace' = Append(trace, CompletionEvent("followup",
                          FollowUpRequest(messages', tools).tools # <<>>))
    /\ \/ \E e \in ProviderErrors : Fails(e)
       \/ \E content \in Contents, asksTools \in BOOLEAN :
             /\ pc' = "done"
             /\ UNCHANGED caught
             /\ response' = IF content # Empty
                            THEN Append(response, Chunk("content", content, <<>>))
                            ELSE response
    /\ UNCHANGED <<registry, store, caller, tools, reply, idx, toolMessages,
                   pending, supplied, raced, otherOps,
                   clock, conversation>>
    /\ UNCHANGED <<chatVars, authVars>>

\* chat_endpoint, lines 113-150: the generator is exhausted, the joined
\* response is stored and returned, and the agent is dropped.
Finished ==
    /\ pc = "done"
    /\ pc' = "idle"
    /\ caller' = NoUser
    /\ tools' = <<>>
    /\ messages' = <<>>
    /\ reply' = NoReply
    /\ idx' = 0
    /\ toolMessages' = <<>>
    /\ pending' = NoArgs
    /\ supplied' = Absent
    /\ response' = <<>>
    /\ caught' = NoError
    /\ trace' = <<>>
    /\ raced' = FALSE
    /\ UNCHANGED <<registry, store, otherOps,
                   clock, conversation>>

EndTurn ==
    /\ Finished
    /\ UNCHANGED <<chatVars, authVars>>

\* A request of the same user that another worker serves while this one is
\* between its first fetch and its last handler call: DELETE
\* /api/{user_id}/tasks/{task_id} (TaskService.delete_task).
OtherRequest ==
    /\ pc \in {"first", "exec", "handler"}
    /\ otherOps < MaxOther
    /\ \E id \in TaskIds :
          /\ OwnedRow(store, caller, id)
          /\ store' = delete_task(store, caller, id).store
    /\ otherOps' = otherOps + 1
    /\ UNCHANGED <<clock, conversation>>
    /\ raced' = (raced \/ pc = "handler")
    /\ UNCHANGED <<registry, pc, caller, tools, messages, reply, idx,
                   toolMessages, pending, supplied, response, caught, trace>>
    /\ UNCHANGED <<chatVars, authVars>>

Next ==
    \/ \E u \in ChatUsers, m \in UserMessages : StartTurn(u, m)
    \/ FirstCompletion
    \/ ToolCall
    \/ GuardedHandler
    \/ FollowUp
    \/ EndTurn
    \/ OtherRequest

Spec == Init /\ [][Next]_vars

\* The turns that start on the table the service starts with.
FirstTurn ==
    /\ store = InitialStore
    /\ otherOps = 0
    /\ \E u \in ChatUsers, m \in UserMessages : StartTurn(u, m)

TurnNext ==
    \/ FirstTurn
    \/ FirstCompletion
    \/ ToolCall
    \/ GuardedHandler
    \/ FollowUp
    \/ EndTurn
    \/ OtherRequest

\* The first turns, with a database that may be down when the guard
\* fetches the caller's tasks.
FailingFetchNext == TurnNext \/ ToolCallFetchFails

FailingFetchSpec == Init /\ [][FailingFetchNext]_vars

\* ------------------------------------------ exceptions with many markers
\* Pieces of text an exception message may be made of: the markers of the
\* three classes, as written and in another case, and text without marker.
Fragments ==
    { <<"C","o","n","n","e","c","t","i","o","n">>,
      <<"c","o","n","n","e","c","t">>,
      <<"4","0","1">>,
      <<"U","n","a","u","t","h","o","r","i","z","e","d">>,
      <<"A","u","t","h","e","n","t","i","c","a","t","i","o","n">>,
      <<"r","a","t","e">>,
      <<"L","i","m","i","t">>,
      <<"b","o","o","m">> }

MaxFragments == 3

RECURSIVE Join(_)
Join(parts) == IF parts = <<>> THEN <<>> ELSE Head(parts) \o Join(Tail(parts))

\* str(e) of the exceptions followed: up to MaxFragments pieces in a row.
MarkedMessages ==
    { Join(parts) : parts \in UNION { [1..n -> Fragments] : n \in 0..MaxFragments } }

MarkedErrors == { Exc("APIError", msg) : msg \in MarkedMessages }

\* The first completion request raises one of these exceptions and the
\* except clause of process_message classifies it.
ProviderRaises ==
    /\ pc = "first"
    /\ trace' = Append(trace, CompletionEvent("first",
                                    FirstRequest(messages, tools).tools # <<>>))
    /\ \E e \in MarkedErrors : Fails(e)
    /\ UNCHANGED <<registry, store, caller, tools, messages, reply, idx,
                   toolMessages, pending, supplied, raced, otherOps,
                   clock, conversation>>
    /\ UNCHANGED <<chatVars, authVars>>

ClassifierNext == FirstTurn \/ ProviderRaises \/ EndTurn

ClassifierSpec == Init /\ [][ClassifierNext]_vars

\* Signatures another module could decorate under the names of add_task
\* and list_tasks.
OtherSignatures ==
    { [name |-> "add_task",
       params |-> <<"user_id", "title">>,
       defaults |-> {}],
      [name |-> "list_tasks",
       params |-> <<"user_id">>,
       defaults |-> {}] }

\* The registry right after `mcp_server = SimpleMCPRegistry(...)`, before
\* anything is registered; no request is served.
RegistryInit ==
    /\ registry = <<>>
    /\ store = InitialStore
    /\ pc = "idle"
    /\ caller = NoUser
    /\ tools = <<>>
    /\ messages = <<>>
    /\ reply = NoReply
    /\ idx = 0
    /\ toolMessages = <<>>
    /\ pending = NoArgs
    /\ supplied = Absent
    /\ response = <<>>
    /\ caught = NoError
    /\ trace = <<>>
    /\ raced = FALSE
    /\ otherOps = 0
    /\ clock = 1
    /\ conversation = <<>>
    /\ conversations = InitialConversations
    /\ request = NoRequest
    /\ conversation_id = None
    /\ status = 0
    /\ reset_tokens = [t \in ResetTokens |-> NoToken]
    /\ issued = 0
    /\ used = <<>>
    /\ last = NoCall

\* @mcp_server.tool(...) applied to one function.
Register(sig) ==
    /\ registry' = RegisterTool(registry, sig)
    /\ UNCHANGED <<store, pc, caller, tools, messages, reply, idx,
                   toolMessages, pending, supplied, response, caught, trace,
                   raced, otherOps,
                   clock, conversation>>
    /\ UNCHANGED <<chatVars, authVars>>

\* get_mcp_server(): register_task_tools on the module-level registry.
RegisterAll ==
    /\ registry' = GetMcpServer(registry)
    /\ UNCHANGED <<store, pc, caller, tools, messages, reply, idx,
                   toolMessages, pending, supplied, response, caught, trace,
                   raced, otherOps,
                   clock, conversation>>
    /\ UNCHANGED <<chatVars, authVars>>

RegistryNext ==
    \/ \E sig \in Range(Signatures) \cup OtherSignatures : Register(sig)
    \/ RegisterAll

RegistrySpec == RegistryInit /\ [][RegistryNext]_vars

\* ------------------------------------------- the conversation's history
\* limit of ChatService.get_conversation_history
HistoryLimit == 100

\* The most rows a conversation is followed to.
MaxStored == 104

\* ChatService.store_message: one more row, created now; the rows of a
\* conversation are kept here in the order of created_at.
StoreMessage(conv, role, content) ==
    Append(conv, [role |-> role, content |-> content])

\* ChatService.get_conversation_history: the rows ordered by created_at
\* ascending, cut by .limit(limit).
GetConversationHistory(conv) ==
    SubSeq(conv, 1, IF Len(conv) < HistoryLimit THEN Len(conv) ELSE HistoryLimit)

\* history[:-1]
AllButLast(seq) == SubSeq(seq, 1, Len(seq) - 1)

\* ChatService.format_messages_for_openai
FormatMessagesForOpenAI(msgs) ==
    [i \in 1..Len(msgs) |-> [role |-> msgs[i].role, content |-> msgs[i].content]]

\* Lines 146-156 of process_message: the system message, the history,
\* the user message.
BuildMessages(conversation_history, user_message) ==
    << SystemMessage(<<>>) >>
    \o conversation_history
    \o << [role |-> "user", content |-> user_message] >>

\* chat_endpoint, lines 89-116, for a request that names the conversation:
\* the user message is stored, the history is loaded and formatted without
\* its last row, and process_message builds the messages of the first
\* request.  The content of a message is its number in the conversation,
\* which has none of the preload's keywords.
HistoryRequest ==
    /\ pc = "idle"
    /\ Len(conversation) + 2 <= MaxStored
    /\ LET user_message == Len(conversation) + 1
           stored == StoreMessage(conversation, "user", user_message)
           history == GetConversationHistory(stored)
           formatted_history == FormatMessagesForOpenAI(AllButLast(history))
           reg == GetMcpServer(registry)
       IN  /\ conversation' = stored
           /\ registry' = RegistryAfterGetOpenAITools(reg)
           /\ tools' = GetOpenAITools(reg)
           /\ messages' = BuildMessages(formatted_history, user_message)
    /\ \E u \in ChatUsers : caller' = u
    /\ pc' = "first"
    /\ UNCHANGED <<store, reply, idx, toolMessages, pending, supplied,
                   response, caught, trace, raced, otherOps, clock>>
    /\ UNCHANGED <<chatVars, authVars>>

\* chat_endpoint, lines 118-127: the assistant's response is stored in the
\* conversation.
HistoryResponse ==
    /\ pc = "first"
    /\ conversation' = StoreMessage(conversation, "assistant", Len(conversation) + 1)
    /\ messages' = <<>>
    /\ tools' = <<>>
    /\ caller' = NoUser
    /\ pc' = "idle"
    /\ UNCHANGED <<registry, store, reply, idx, toolMessages, pending,
                   supplied, response, caught, trace, raced, otherOps, clock>>
    /\ UNCHANGED <<chatVars, authVars>>

HistoryNext ==
    \/ HistoryRequest
    \/ HistoryResponse

\* Requests of one conversation, from its first message on.
HistorySpec == Init /\ [][HistoryNext]_vars

\* ------------------------------------------------------ the chat endpoint
\* The null byte, as one element of a message.
Nul == "\\x00"
Whitespace == {" ", "\t", "\n"}

\* max_length of sanitize_user_input
MaxLength == 5000

\* user_input.replace("\x00", "")
RECURSIVE RemoveNul(_)
RemoveNul(text) ==
    IF text = <<>> THEN <<>>
    ELSE (IF Head(text) = Nul THEN <<>> ELSE <<Head(text)>>) \o RemoveNul(Tail(text))

\* sanitized[:max_length]
Truncate(text) == SubSeq(text, 1, IF Len(text) > MaxLength THEN MaxLength ELSE Len(text))

\* re.sub(r"\s+", " ", sanitized): every run of whitespace becomes one space.
RECURSIVE CollapseWhitespace(_)
CollapseWhitespace(text) ==
    IF text = <<>> THEN <<>>
    ELSE IF Head(text) \in Whitespace
    THEN IF Tail(text) # <<>> /\ Head(Tail(text)) \in Whitespace
         THEN CollapseWhitespace(Tail(text))
         ELSE <<" ">> \o CollapseWhitespace(Tail(text))
    ELSE <<Head(text)>> \o CollapseWhitespace(Tail(text))

\* str.strip()
RECURSIVE Strip(_)
Strip(text) ==
    IF text = <<>> THEN <<>>
    ELSE IF Head(text) \in Whitespace THEN Strip(Tail(text))
    ELSE IF text[Len(text)] \in Whitespace THEN Strip(SubSeq(text, 1, Len(text) - 1))
    ELSE text

\* ChatService.sanitize_user_input
SanitizeUserInput(user_input) ==
    IF user_input = <<>> THEN <<>>
    ELSE Strip(CollapseWhitespace(Truncate(RemoveNul(user_input))))

\* " add  milk" followed by a null byte.
MsgSpaced == <<" ","a","d","d"," "," ","m","i","l","k", Nul>>
ChatMessages == {MsgDelete, MsgSpaced}

\* The path's user_id, the user of the token, the body's conversation_id
\* and message.
Requests ==
    [user_id : Users \cup {"bob"},
     current_user : {"u1", "bob"},
     conversation_id : {None} \cup ConvIds,
     message : ChatMessages]

\* The most MessageTable rows followed, over all conversations.
MaxChatRows == 4

RECURSIVE RowsFrom(_, _)
RowsFrom(convs, k) ==
    IF k > Len(ConvPool) THEN 0
    ELSE Len(convs[ConvPool[k]].rows) + RowsFrom(convs, k + 1)

\* Mutant of GetConversation: the query has no filter on user_id.
GetConversationAnyUser(convs, id, user_id) ==
    id \in ConvIds /\ convs[id].st = "live"

\* ChatService.get_conversation: whether a row with this id and this
\* user_id exists.
GetConversation(convs, id, user_id) ==
    id \in ConvIds /\ convs[id].st = "live" /\ convs[id].owner = user_id

\* uuid4() of create_conversation.
HasFreshConv(convs) == \E c \in ConvIds : convs[c].st = "free"
FreshConv(convs) ==
    ConvPool[CHOOSE k \in 1..Len(ConvPool) :
                /\ convs[ConvPool[k]].st = "free"
                /\ \A j \in 1..(k - 1) : convs[ConvPool[j]].st # "free"]

\* ChatService.create_conversation
CreateConversation(convs, id, user_id) ==
    [convs EXCEPT ![id] = [st |-> "live", owner |-> user_id, rows |-> <<>>]]

\* An HTTPException raised before anything is written.
Rejected(code) ==
    /\ status' = code
    /\ UNCHANGED <<registry, store, pc, caller, tools, messages, reply, idx,
                   toolMessages, pending, supplied, response, caught, trace,
                   raced, otherOps, clock, conversation,
                   conversations, conversation_id>>

\* chat_endpoint up to the first completion request of process_message:
\* the checks of lines 49-78, the conversation, the stored user message,
\* the history and the agent.
ChatRequest ==
    /\ pc = "idle"
    /\ \E r \in Requests :
          /\ request' = r
          /\ IF r.current_user # r.user_id
             THEN Rejected(403)
             ELSE IF ~IsUUID(r.user_id)
             THEN Rejected(400)
             ELSE IF r.conversation_id # None
                     /\ ~GetConversation(conversations, r.conversation_id, r.user_id)
             THEN Rejected(404)
             ELSE /\ RowsFrom(conversations, 1) + 2 <= MaxChatRows
                  /\ r.conversation_id = None => HasFreshConv(conversations)
                  /\ LET id == IF r.conversation_id = None
                               THEN FreshConv(conversations)
                               ELSE r.conversation_id
                         convs == IF r.conversation_id = None
                                  THEN CreateConversation(conversations, id, r.user_id)
                                  ELSE conversations
                         sanitized_message == SanitizeUserInput(r.message)
                         rows == StoreMessage(convs[id].rows, "user", sanitized_message)
                         history == GetConversationHistory(rows)
                         formatted_history ==
                             FormatMessagesForOpenAI(AllButLast(history))
                     IN  /\ conversations' = [convs EXCEPT ![id].rows = rows]
                         /\ conversation_id' = id
                         /\ status' = 0
                         /\ StartTurnWith(r.user_id, sanitized_message,
                                          formatted_history)
    /\ UNCHANGED authVars

\* chat_endpoint, lines 113-150: the generator is exhausted, the joined
\* response is stored as the assistant's message and returned.
ChatResponse ==
    /\ Finished
    /\ conversations' =
          [conversations EXCEPT ![conversation_id].rows =
              StoreMessage(@, "assistant", response)]
    /\ conversation_id' = None
    /\ status' = 200
    /\ UNCHANGED request
    /\ UNCHANGED authVars

ChatNext ==
    \/ ChatRequest
    \/ FirstCompletion
    \/ ToolCall
    \/ GuardedHandler
    \/ FollowUp
    \/ ChatResponse
    \/ OtherRequest

ChatSpec == Init /\ [][ChatNext]_vars

\* ------------------------------------------------ completing a task twice
\* Completions of tasks, through the complete_task tool and through
\* PATCH /api/{user_id}/tasks/{task_id}/complete, while time passes.
MaxClock == 6

\* services/task.py TaskService.complete_task: the table after the call.
TaskService_complete_task(s, task_id, user_id) ==
    IF OwnedRow(s, user_id, task_id)
    THEN [s EXCEPT ![task_id].completed = TRUE,
                   ![task_id].completed_at = clock]
    ELSE s

\* datetime.utcnow() has moved on.
Tick ==
    /\ clock < MaxClock
    /\ clock' = clock + 1
    /\ UNCHANGED <<registry, store, pc, caller, tools, messages, reply, idx,
                   toolMessages, pending, supplied, response, caught, trace,
                   raced, otherOps, conversation>>
    /\ UNCHANGED <<chatVars, authVars>>

\* The complete_task tool, called for a user and a task identifier.
CompleteTool ==
    /\ \E u \in Users, id \in TaskIds :
          store' = complete_task(store, u, id).store
    /\ UNCHANGED <<registry, pc, caller, tools, messages, reply, idx,
                   toolMessages, pending, supplied, response, caught, trace,
                   raced, otherOps, clock, conversation>>
    /\ UNCHANGED <<chatVars, authVars>>

\* The complete route, called by an authenticated user for a task
\* identifier.
CompleteRoute ==
    /\ \E u \in Users, id \in TaskIds :
          store' = TaskService_complete_task(store, id, u)
    /\ UNCHANGED <<registry, pc, caller, tools, messages, reply, idx,
                   toolMessages, pending, supplied, response, caught, trace,
                   raced, otherOps, clock, conversation>>
    /\ UNCHANGED <<chatVars, authVars>>

CompletionNext == Tick \/ CompleteTool \/ CompleteRoute

CompletionSpec == Init /\ [][CompletionNext]_vars

\* ------------------------------------------------------ password reset
\* timedelta(hours=1), in ticks of the clock.
TokenLifetime == 2

Emails == {"a@x.io", "b@x.io"}

\* The tokens a client may send: the ones uuid4 can produce, issued or
\* not, and one it never produces.
PresentedTokens == ResetTokens \cup {"guess"}

Held(tokens, token) == token \in ResetTokens /\ tokens[token].st = "present"

\* auth.py create_password_reset_token, for the uuid4 value reset_token.
create_password_reset_token(tokens, reset_token, email) ==
    [tokens EXCEPT ![reset_token] =
        [st |-> "present", email |-> email, expires |-> clock + TokenLifetime]]

\* auth.py verify_password_reset_token: the email or None, and the dict
\* after the call (an expired token is deleted).
verify_password_reset_token(tokens, token) ==
    IF ~Held(tokens, token)
    THEN [email |-> None, tokens |-> tokens]
    ELSE IF clock > tokens[token].expires
    THEN [email |-> None, tokens |-> [tokens EXCEPT ![token] = NoToken]]
    ELSE [email |-> tokens[token].email, tokens |-> tokens]

\* Mutant of consume_password_reset_token: the token is found but not
\* deleted.
consume_password_reset_token_kept(tokens, token) ==
    IF Held(tokens, token)
    THEN [ok |-> TRUE, tokens |-> tokens]
    ELSE [ok |-> FALSE, tokens |-> tokens]

\* auth.py consume_password_reset_token
consume_password_reset_token(tokens, token) ==
    IF Held(tokens, token)
    THEN [ok |-> TRUE, tokens |-> [tokens EXCEPT ![token] = NoToken]]
    ELSE [ok |-> FALSE, tokens |-> tokens]

Call(op, token, ok) == [op |-> op, token |-> token, ok |-> ok, at |-> clock]

AuthFrame ==
    UNCHANGED <<registry, store, pc, caller, tools, messages, reply, idx,
                toolMessages, pending, supplied, response, caught, trace,
                raced, otherOps, clock, conversation, chatVars>>

\* POST /forgot-password
forgot_password ==
    /\ issued < Len(TokenPool)
    /\ \E email \in Emails :
          LET reset_token == TokenPool[issued + 1] IN
          /\ reset_tokens' = create_password_reset_token(reset_tokens, reset_token, email)
          /\ last' = Call("forgot", reset_token, TRUE)
    /\ issued' = issued + 1
    /\ UNCHANGED used
    /\ AuthFrame

\* A call of verify_password_reset_token alone.
VerifyToken ==
    /\ \E token \in PresentedTokens :
          LET v == verify_password_reset_token(reset_tokens, token) IN
          /\ reset_tokens' = v.tokens
          /\ last' = Call("verify", token, v.email # None)
    /\ UNCHANGED <<issued, used>>
    /\ AuthFrame

\* POST /reset-password: 400 when verify returns None, else the token is
\* consumed and the reset is reported.
reset_password ==
    /\ \E token \in PresentedTokens :
          LET v == verify_password_reset_token(reset_tokens, token) IN
          IF v.email = None
          THEN /\ reset_tokens' = v.tokens
               /\ last' = Call("reset", token, FALSE)
               /\ UNCHANGED used
          ELSE /\ reset_tokens' = consume_password_reset_token(v.tokens, token).tokens
               /\ last' = Call("reset", token, TRUE)
               /\ used' = Append(used, token)
    /\ UNCHANGED issued
    /\ AuthFrame

AuthNext == forgot_password \/ VerifyToken \/ reset_password \/ Tick

AuthSpec == Init /\ [][AuthNext]_vars

\* process_message is one coroutine that chat_endpoint awaits to its end:
\* a step of the turn that can be taken is taken.  Turns need not start,
\* and other requests need not arrive.
FairSpec ==
    /\ Init
    /\ [][TurnNext]_vars
    /\ WF_vars(FirstCompletion)
    /\ WF_vars(ToolCall)
    /\ WF_vars(GuardedHandler)
    /\ WF_vars(FollowUp)

\* ------------------------------------------------------------- properties
Last(seq) == seq[Len(seq)]

\* The identifiers of the rows of user u.
OwnIds(s, u) == {id \in TaskIds : s[id].st = "live" /\ s[id].owner = u}
OwnTitles(s, u) == {s[id].title : id \in OwnIds(s, u)}

ListedTitles(listing) == {listing[i].title : i \in 1..Len(listing)}

CompletionCount ==
    Cardinality({i \in 1..Len(trace) : trace[i].ev = "completion"})

IsToolEvent(e) == e.ev = "handler" /\ e.phase = "tool"
IsGuardEvent(e) == e.ev = "handler" /\ e.phase = "guard"

\* The step is one in which an invocation returned its outcome.
OutcomeAdded == Len(toolMessages') = Len(toolMessages) + 1
EventAdded == Len(trace') = Len(trace) + 1

\* C1: every handler call of a turn (the preload's and the guard's fetch
\* and the tool's own handler) is made with the authenticated caller's id
\* as user_id, whatever user_id the model's payload carried; the arguments
\* waiting for the handler after the guard hold the caller's id too.
C1_UserIdIsCaller ==
    /\ \A i \in 1..Len(trace) :
          trace[i].ev = "handler" => trace[i].user_id = caller
    /\ pc = "handler" => pending.user_id = caller

\* A handler's body ran for an invocation whose payload named another user.
C1_Witness ==
    /\ Len(trace) > 0
    /\ IsToolEvent(Last(trace))
    /\ Last(trace).flag
    /\ Last(trace).call = Len(toolMessages)
    /\ supplied \in Users \ {caller}
    /\ Last(trace).user_id = caller

\* C2: no step of a turn served for the caller, and no other request of
\* the caller, creates, changes or removes a row of another user; the
\* preloaded listing holds only rows of the caller, and the title and the
\* listing of every outcome come from rows of the caller.
C2_Step ==
    /\ \A id \in TaskIds :
          store'[id] # store[id] =>
              /\ store[id].owner \in {NoUser, caller}
              /\ store'[id].owner \in {NoUser, caller}
    /\ (pc = "idle" /\ pc' = "first") =>
          \A i \in 1..Len(messages'[1].content.tasks) :
              messages'[1].content.tasks[i].id \in OwnIds(store, caller')
    /\ OutcomeAdded =>
          LET o == Last(toolMessages').content IN
          /\ o.title # None =>
                o.title \in OwnTitles(store, caller) \cup OwnTitles(store', caller)
          /\ ListedTitles(o.listing) \subseteq OwnTitles(store, caller)

C2_Isolation == [][C2_Step]_vars

\* The caller's turn listed tasks, with a payload naming the other user,
\* while the other user has a task; the listing is the caller's.
C2_Witness ==
    /\ Len(toolMessages) > 0
    /\ Last(toolMessages).content.kind = "listed"
    /\ supplied \in Users \ {caller}
    /\ \E u \in Users \ {caller} : OwnIds(store, u) # {}
    /\ ListedTitles(Last(toolMessages).content.listing) = OwnTitles(store, caller)

\* C3: every schema of the catalog sent to the provider has a user_id
\* property, and user_id is not in its required list.
C3_UserIdNotRequired ==
    \A i \in 1..Len(tools) :
        /\ "user_id" \in tools[i].properties
        /\ "user_id" \notin tools[i].required

\* The guard's fetch for the same invocation and task_id came right before
\* the handler call at position i of trace, and found the task_id.
GuardedBefore(i) ==
    /\ i > 1
    /\ IsGuardEvent(trace[i - 1])
    /\ trace[i - 1].call = trace[i].call
    /\ trace[i - 1].task_id = trace[i].task_id
    /\ trace[i - 1].user_id = caller
    /\ trace[i - 1].flag

\* C4 as stated: the body of a mutating tool's handler never runs without
\* a successful membership check of that invocation before it, a missing
\* or empty task_id included.
C4_AlwaysGuarded ==
    \A i \in 1..Len(trace) :
        (IsToolEvent(trace[i]) /\ trace[i].tool \in MutatingTools /\ trace[i].flag)
            => GuardedBefore(i)

\* C4 as amended: the handler of a mutating tool is called for an
\* invocation that carries a non-empty task_id only after the caller's
\* tasks were fetched for that invocation and the task_id was among them.
C4_GuardedWhenTaskId ==
    \A i \in 1..Len(trace) :
        (IsToolEvent(trace[i]) /\ trace[i].tool \in MutatingTools
                               /\ Truthy(trace[i].task_id))
            => GuardedBefore(i)

\* The handler of complete_task ran for one of the caller's tasks, after
\* the check.
C4_Witness ==
    \E i \in 1..Len(trace) :
        /\ IsToolEvent(trace[i])
        /\ trace[i].tool = "complete_task"
        /\ trace[i].flag
        /\ Truthy(trace[i].task_id)
        /\ store[trace[i].task_id].completed
        /\ GuardedBefore(i)

\* C5: when delete_task is invoked with an identifier that is not one of
\* the caller's tasks, and the caller has tasks, the invocation returns
\* the task-not-found error with a listing of exactly the caller's titles,
\* the only handler called is the guard's fetch, and the table is unchanged.
C5_Step ==
    (/\ pc = "exec"
     /\ reply.tool_calls[idx].name = "delete_task"
     /\ EventAdded
     /\ Last(trace').task_id \in TaskIds
     /\ Last(trace').task_id \notin OwnIds(store, caller)
     /\ OwnIds(store, caller) # {})
    => (/\ IsGuardEvent(Last(trace'))
        /\ pc' # "handler"
        /\ store' = store
        /\ OutcomeAdded
        /\ LET o == Last(toolMessages').content IN
           /\ o.kind = "task_not_found"
           /\ o.kind \notin SuccessKinds
           /\ Len(o.listing) = Cardinality(OwnIds(store, caller))
           /\ ListedTitles(o.listing) = OwnTitles(store, caller))

C5_DeleteUnknownRejected == [][C5_Step]_vars

\* The caller owns one task, titled x; delete_task named the other user's
\* task and was rejected with the listing of x.
C5_Witness ==
    /\ Len(toolMessages) > 0
    /\ Last(toolMessages).content.kind = "task_not_found"
    /\ Last(toolMessages).content.tool = "delete_task"
    /\ Last(toolMessages).content.listing = <<[title |-> "x", mark |-> FALSE]>>
    /\ IsGuardEvent(Last(trace))
    /\ Last(trace).call = Len(toolMessages)
    /\ \E u \in Users \ {caller} : Last(trace).task_id \in OwnIds(store, u)
    /\ Cardinality(OwnIds(store, caller)) = 1

\* C6: when the guard found delete_task's task_id among the caller's tasks
\* and no other request wrote the table since, the handler call returns the
\* deleted sentence with the task's title and the row is gone.
C6_Step ==
    (/\ pc = "handler"
     /\ pc' # "handler"
     /\ ~raced
     /\ reply.tool_calls[idx].name = "delete_task"
     /\ Keys(pending) = {"user_id", "task_id"})
    => (/\ OutcomeAdded
        /\ Last(toolMessages').content.kind = "deleted"
        /\ Last(toolMessages').content.kind \in SuccessKinds
        /\ Last(toolMessages').content.title = store[pending.task_id].title
        /\ IsLive(store, pending.task_id)
        /\ ~IsLive(store', pending.task_id))

C6_DeleteOwnSucceeds == [][C6_Step]_vars

\* delete_task was checked, ran and removed the caller's task.
C6_Witness ==
    /\ Len(toolMessages) > 0
    /\ Last(toolMessages).content.kind = "deleted"
    /\ IsToolEvent(Last(trace))
    /\ Last(trace).tool = "delete_task"
    /\ Last(trace).call = Len(toolMessages)
    /\ store[Last(trace).task_id].st = "deleted"

\* The turn is over and its first completion returned a message without
\* tool calls.
RepliedWithoutTools ==
    pc = "done" /\ reply.assigned /\ reply.tool_calls = <<>>

\* C7 as stated: after a first reply without tool invocations the turn made
\* exactly one completion call and invoked no tool handler.
C7_OneCallNoHandler ==
    RepliedWithoutTools =>
        /\ CompletionCount = 1
        /\ \A i \in 1..Len(trace) : trace[i].ev # "handler"

\* C7 as amended: after a first reply without tool invocations the turn
\* made exactly one completion call and executed no invocation; the only
\* handler call of the turn, if any, is the preload's list_tasks fetch,
\* made before the completion call.
C7_OneCallNoInvocation ==
    RepliedWithoutTools =>
        /\ CompletionCount = 1
        /\ Last(trace).ev = "completion"
        /\ toolMessages = <<>>
        /\ \A i \in 1..Len(trace) :
              trace[i].ev = "handler" =>
                  trace[i].phase = "preload" /\ trace[i].tool = "list_tasks"

\* A turn whose message has a keyword got a reply without tool calls.
C7_Witness ==
    /\ RepliedWithoutTools
    /\ Len(trace) = 2
    /\ trace[1].ev = "handler"
    /\ trace[2].ev = "completion"

\* C8: when the turn is over and the first reply carried two or more
\* invocations, each has returned its outcome, in the order received, and
\* the follow-up call was made after the last.
C8_AllExecutedInOrder ==
    (pc = "done" /\ Len(reply.tool_calls) >= 2) =>
        /\ Len(toolMessages) = Len(reply.tool_calls)
        /\ \A i \in 1..Len(toolMessages) :
              toolMessages[i].tool_call_id = reply.tool_calls[i].id
        /\ Last(trace).ev = "completion"
        /\ Last(trace).phase = "followup"

\* C9: a turn makes at most two completion calls; the follow-up call is
\* sent without the tool catalog and nothing is called after it.
C9_AtMostTwoCalls ==
    /\ CompletionCount <= 2
    /\ \A i \in 1..Len(trace) :
          (trace[i].ev = "completion" /\ trace[i].phase = "followup") =>
              /\ ~trace[i].flag
              /\ i = Len(trace)
              /\ \E j \in 1..(i - 1) :
                    trace[j].ev = "completion" /\ trace[j].phase = "first"

\* The turn ended after a tool round and its follow-up call.
C9_Witness ==
    /\ pc = "done"
    /\ CompletionCount = 2
    /\ \E i \in 1..Len(trace) : IsToolEvent(trace[i])
    /\ Last(trace).phase = "followup"

\* C10: when the turn is over and a handler call raised in it, that
\* invocation's outcome is the execution error carrying the exception's
\* message, every invocation of the reply has returned an outcome, and the
\* follow-up call was made.
C10_HandlerRaiseContained ==
    \A i \in 1..Len(trace) :
        (pc = "done" /\ IsToolEvent(trace[i]) /\ ~trace[i].flag) =>
            /\ Len(toolMessages) = Len(reply.tool_calls)
            /\ toolMessages[trace[i].call].content =
                  ExecutionError(trace[i].tool, BindError)
            /\ Last(trace).ev = "completion"
            /\ Last(trace).phase = "followup"

\* The sites at which a completion-provider call raises.
ProviderSites == {"first", "followup"}

\* The follow-up call was made and is the last event of the turn.
FollowUpMade ==
    /\ Len(trace) > 0
    /\ Last(trace).ev = "completion"
    /\ Last(trace).phase = "followup"

\* C11: when the turn is over and the payload of one of its invocations
\* could not be decoded, that invocation has a failure outcome among the
\* tool messages, every invocation of the reply has returned an outcome,
\* and the follow-up call was made.
C11_MalformedRecorded ==
    (pc = "done" /\ caught.site = "exec" /\ caught.exc.type = "JSONDecodeError")
        => /\ Len(toolMessages) = Len(reply.tool_calls)
           /\ toolMessages[idx].content.kind \notin SuccessKinds
           /\ FollowUpMade

\* C12: a turn that executed invocations and whose follow-up call returned
\* normally never ends with an empty response.
C12_FollowUpNeverEmpty ==
    (pc = "done" /\ caught = NoError /\ reply.tool_calls # <<>>)
        => response # <<>>

\* C13: after a first reply without tool calls the turn made one
\* completion call and its response is the reply's text when it has text,
\* and the fixed fallback sentence when it has none.
C13_DirectOrFallback ==
    RepliedWithoutTools =>
        /\ CompletionCount = 1
        /\ response = << IF reply.content # Empty
                         THEN Chunk("content", reply.content, <<>>)
                         ELSE Chunk("fallback", None, <<>>) >>

\* The first reply had neither tool calls nor text and the turn answered
\* with the fallback sentence.
C13_Witness ==
    /\ RepliedWithoutTools
    /\ reply.content = Empty
    /\ response = << Chunk("fallback", None, <<>>) >>

\* C14: when a completion-provider call, first or follow-up, raised an
\* exception whose message has a connectivity marker, the turn is over and
\* its whole response is the connectivity sentence.
C14_ConnectivitySentence ==
    (caught.site \in ProviderSites /\ ConnectivityMarker(caught.exc.msg))
        => /\ pc = "done"
           /\ response = << Chunk("connection", None, <<>>) >>

\* The follow-up call raised a connectivity exception after a tool round.
C14_Witness ==
    /\ caught.site = "followup"
    /\ ConnectivityMarker(caught.exc.msg)
    /\ toolMessages # <<>>
    /\ pc = "done"
    /\ response = << Chunk("connection", None, <<>>) >>

\* C15: when a completion-provider call raised an exception whose message
\* has none of the markers, the response is the generic sentence with the
\* exception's type name only; the exception's message is not in it.
C15_GenericTypeOnly ==
    (/\ caught.site \in ProviderSites
     /\ ~ConnectivityMarker(caught.exc.msg)
     /\ ~AuthenticationMarker(caught.exc.msg)
     /\ ~RateLimitMarker(caught.exc.msg))
        => response = << Chunk("generic", caught.exc.type, <<>>) >>

\* The sentences the except clause of process_message chooses from.
ClassifiedKinds == {"connection", "credentials", "rate_limit", "generic"}

\* C16: a failure raised while an invocation is executed never puts a
\* sentence of the error classifier into the turn's response.
C16_ClassifierProviderOnly ==
    caught.site = "exec" =>
        \A j \in 1..Len(response) : response[j].kind \notin ClassifiedKinds

\* C17: every turn that has started ends: from every state inside
\* process_message the generator reaches its end (pc = "done"), whatever
\* the provider replies or raises and whatever the handlers return or
\* raise; pc has no value for an exception that left process_message.
C17_TurnTerminates ==
    /\ [](pc \in {"idle", "first", "exec", "handler", "followup", "done"})
    /\ [](pc \in {"first", "exec", "handler", "followup"} => <>(pc = "done"))

\* A turn with a preload and a handler call that raised ended in the except
\* clause after its follow-up call raised.
C17_Witness ==
    /\ pc = "done"
    /\ caught.site = "followup"
    /\ trace[1].ev = "handler" /\ trace[1].phase = "preload"
    /\ \E i \in 1..Len(trace) : IsToolEvent(trace[i]) /\ ~trace[i].flag

\* C18: when a turn that executed invocations is over, the response handed
\* to chat_endpoint carries the outcome of every executed invocation; the
\* only chunk that can carry them is text of the follow-up reply, which
\* the provider wrote with the tool messages before it.
C18_OutcomesHandedBack ==
    (pc = "done" /\ toolMessages # <<>>)
        => \E j \in 1..Len(response) : response[j].kind = "content"

\* The task_id of the invocation at position i of the reply, as the
\* handler was called with it.
TaskOf(i) ==
    trace[CHOOSE k \in 1..Len(trace) :
              IsToolEvent(trace[k]) /\ trace[k].call = i].task_id

C20_Step ==
    \A i \in 1..Len(registry) :
        /\ i <= Len(registry')
        /\ registry'[i] = registry[i]

C20_RegisteredDefinitionKept == [][C20_Step]_vars

\* C21: after startup no step writes the registry: its contents stay what
\* startup_event left.
C21_RegistryNeverWritten == [][registry' = registry]_vars

\* The names of the definitions list_tools returns, in its order.
ListedNames(reg) == [i \in 1..Len(ListTools(reg)) |-> ListTools(reg)[i].name]

\* C22: after every registration list_tools returns each registered name
\* once, the names registered before keep their places and a new name
\* comes last (the order of first registration); get_tool returns the
\* definition of a registered name and None for every other name.
C22_Step ==
    /\ Len(ListedNames(registry)) <= Len(ListedNames(registry'))
    /\ Len(ListedNames(registry')) <= Len(ListedNames(registry)) + 1
         \/ ListedNames(registry') = ListedNames(GetMcpServer(registry))
    /\ \A i \in 1..Len(registry) :
          ListedNames(registry')[i] = ListedNames(registry)[i]
    /\ \A i, j \in 1..Len(registry') :
          ListedNames(registry')[i] = ListedNames(registry')[j] => i = j
    /\ \A n \in RequestedNames :
          IF n \in Range(ListedNames(registry'))
          THEN /\ HasTool(registry', n)
               /\ GetTool(registry', n).name = n
               /\ GetTool(registry', n) \in Range(ListTools(registry'))
          ELSE /\ ~HasTool(registry', n)
               /\ GetTool(registry', n) = None

C22_GetAndListTools == [][C22_Step]_vars

\* All five tools are registered, add_task was registered again with
\* another signature and is still listed first; a name never registered
\* is absent.
C22_Witness ==
    /\ ListedNames(registry) =
          <<"add_task", "list_tasks", "complete_task", "delete_task", "update_task">>
    /\ registry[1].sig \in OtherSignatures
    /\ registry[2].sig \notin OtherSignatures
    /\ GetTool(registry, "no_such_tool") = None

\* The step is the start of a turn: the agent is created and
\* process_message has built the messages of its first request.
TurnStarts == pc = "idle" /\ pc' = "first"

\* C23: the system message of the first request carries a listing exactly
\* when the user message, lower-cased, contains one of the keywords and the
\* caller has tasks; the listing then has one line per task of the caller,
\* completed ones included, numbered from 1 in the store's order, each with
\* the task's id, title and completion flag.  Otherwise it has no line.
C23_Step ==
    TurnStarts =>
        LET listing == messages'[1].content.tasks
            own == OwnIds(store, caller')
            keyword == \E k \in UpdateDeleteKeywords :
                          Contains(Lower(messages'[2].content), k)
        IN  /\ messages'[1].role = "system"
            /\ messages'[1].content.prompt = "SYSTEM_PROMPT"
            /\ (listing # <<>>) <=> (keyword /\ own # {})
            /\ listing # <<>> =>
                  /\ Len(listing) = Cardinality(own)
                  /\ \A i \in 1..Len(listing) :
                        /\ listing[i].index = i
                        /\ listing[i].id \in own
                        /\ listing[i].title = store[listing[i].id].title
                        /\ listing[i].completed = store[listing[i].id].completed
                  /\ \A i, j \in 1..Len(listing) :
                        i < j => IdIndex(listing[i].id) < IdIndex(listing[j].id)

C23_PreloadExactlyWhen == [][C23_Step]_vars

\* A message with a capitalised keyword, sent by a caller with two tasks,
\* one of them completed: the system message lists both.
C23_Witness ==
    /\ pc = "first"
    /\ messages[2].content = MsgDelete
    /\ Len(messages[1].content.tasks) = 2
    /\ messages[1].content.tasks[2].index = 2
    /\ \E i \in 1..2 : messages[1].content.tasks[i].completed

\* C24: the messages of the follow-up request are the messages of the
\* first request, unchanged, then the assistant message with the reply's
\* tool calls, then one tool message per tool call, the i-th with the id
\* of the i-th tool call.
C24_Step ==
    (pc = "followup" /\ pc' = "done") =>
        LET before == Len(messages)
            n == Len(reply.tool_calls)
            sent == FollowUpRequest(messages', tools).messages
        IN  /\ Len(sent) = before + 1 + n
            /\ SubSeq(sent, 1, before) = messages
            /\ \A i \in 1..before : sent[i].role \in {"system", "user"}
            /\ sent[before + 1].role = "assistant"
            /\ sent[before + 1].tool_calls = reply.tool_calls
            /\ \A i \in 1..n :
                  /\ sent[before + 1 + i].role = "tool"
                  /\ sent[before + 1 + i].tool_call_id = reply.tool_calls[i].id
                  /\ sent[before + 1 + i] = toolMessages[i]

C24_FollowUpMessageList == [][C24_Step]_vars

\* The follow-up request of a turn with two invocations was made.
C24_Witness ==
    /\ pc = "done"
    /\ FollowUpMade
    /\ Len(reply.tool_calls) = 2
    /\ Len(messages) = 5
    /\ messages[3].role = "assistant"
    /\ messages[4].tool_call_id = reply.tool_calls[1].id
    /\ messages[5].tool_call_id = reply.tool_calls[2].id

\* C25: the step in which delete_task reports a task deleted removes that
\* task and leaves every other row, of the caller and of every other
\* user, as it was.
C25_Step ==
    (OutcomeAdded /\ Last(toolMessages').content.kind = "deleted") =>
        LET t == Last(trace').task_id IN
        /\ IsToolEvent(Last(trace'))
        /\ IsLive(store, t)
        /\ ~IsLive(store', t)
        /\ \A id \in TaskIds \ {t} : store'[id] = store[id]

C25_DeleteLeavesOthers == [][C25_Step]_vars

\* The caller's two tasks were listed in the system message; delete_task
\* with the id of "Task 1" removed it, and the caller's second task and
\* the other user's task are there.
C25_Witness ==
    /\ Len(toolMessages) > 0
    /\ Last(toolMessages).content.kind = "deleted"
    /\ IsToolEvent(Last(trace))
    /\ Len(messages[1].content.tasks) = 2
    /\ Last(trace).task_id = messages[1].content.tasks[1].id
    /\ store[Last(trace).task_id].st = "deleted"
    /\ IsLive(store, messages[1].content.tasks[2].id)
    /\ store[messages[1].content.tasks[2].id].title
          = messages[1].content.tasks[2].title
    /\ \E u \in Users \ {caller} : OwnIds(store, u) # {}

\* C26: the step that executes an add_task invocation whose payload has a
\* title (and binds to the handler) calls no handler but add_task's, so
\* no task-set fetch is made; it returns the created sentence with the
\* title and exactly one row comes into being, owned by the caller, with
\* that title and not completed; every other row is as it was.
C26_Step ==
    (/\ pc = "exec"
     /\ reply.tool_calls[idx].name = "add_task"
     /\ EventAdded
     /\ Last(trace').flag)
    => (/\ IsToolEvent(Last(trace'))
        /\ Last(trace').tool = "add_task"
        /\ pc' # "handler"
        /\ OutcomeAdded
        /\ Last(toolMessages').content.kind = "created"
        /\ Last(toolMessages').content.title \in Titles
        /\ Cardinality({id \in TaskIds : store'[id] # store[id]}) = 1
        /\ \A id \in TaskIds :
              store'[id] # store[id] =>
                  /\ store[id].st = "free"
                  /\ store'[id].st = "live"
                  /\ store'[id].owner = caller
                  /\ store'[id].title = Last(toolMessages').content.title
                  /\ store'[id].completed = FALSE)

C26_AddCreatesOne == [][C26_Step]_vars

\* add_task ran for a payload that named another user: the new task is
\* the caller's, not completed, and no fetch preceded the handler call.
C26_Witness ==
    /\ Len(toolMessages) > 0
    /\ Last(toolMessages).content.kind = "created"
    /\ IsToolEvent(Last(trace))
    /\ Last(trace).call = Len(toolMessages)
    /\ supplied \in Users \ {caller}
    /\ \A i \in 1..Len(trace) : ~IsGuardEvent(trace[i])
    /\ \E id \in TaskIds :
          /\ IsLive(store, id)
          /\ store[id].owner = caller
          /\ store[id].title = Last(toolMessages).content.title
          /\ ~store[id].completed
          /\ id # IdPool[1]

\* C27: the messages of the first request are one system message, then
\* every row the conversation had before the new user message, in order,
\* then the new user message.
C27_Step ==
    TurnStarts =>
        /\ Len(messages') = Len(conversation) + 2
        /\ messages'[1].role = "system"
        /\ \A i \in 1..Len(conversation) :
              messages'[i + 1] = [role |-> conversation[i].role,
                                 content |-> conversation[i].content]
        /\ messages'[Len(messages')] =
              [role |-> "user", content |-> Last(conversation').content]
        /\ Last(conversation').role = "user"

C27_HistoryThenUserMessage == [][C27_Step]_vars

\* C28: completing a task that is already completed leaves its row, the
\* completion flag and the completion timestamp, as the first completion
\* left it (every step that does not move the clock is a call of complete).
C28_Step ==
    \A id \in TaskIds :
        (clock' = clock /\ store[id].st = "live" /\ store[id].completed)
            => store'[id] = store[id]

C28_CompleteIdempotent == [][C28_Step]_vars

\* The identifiers the preload put into the system message.
PreloadedIds ==
    IF messages = <<>> THEN {}
    ELSE {messages[1].content.tasks[i].id :
             i \in 1..Len(messages[1].content.tasks)}

\* The guard's answer for a table: the task-not-found sentence with the
\* titles of the caller's tasks in it, or the sentence for a caller
\* without tasks.
IsRejectionFor(o, s, u) ==
    /\ o.kind = (IF OwnIds(s, u) # {} THEN "task_not_found" ELSE "no_tasks")
    /\ o.kind \notin SuccessKinds
    /\ Len(o.listing) = Cardinality(OwnIds(s, u))
    /\ ListedTitles(o.listing) = OwnTitles(s, u)

\* C29: the guard decides on the table as it is when the invocation runs:
\* its fetch finds the task_id exactly when the caller owns the task at
\* that moment, and a task_id the preload listed but that was removed
\* since (by an earlier invocation of the turn or by another request) is
\* rejected, without a handler call or a write, with the sentence that
\* lists exactly the titles of the tasks the caller has at that moment.
C29_Step ==
    (pc = "exec" /\ EventAdded /\ IsGuardEvent(Last(trace')))
    => LET id == Last(trace').task_id IN
       /\ Last(trace').flag = (id \in OwnIds(store, caller))
       /\ (id \in PreloadedIds /\ id \notin OwnIds(store, caller))
             => (/\ pc' # "handler"
                 /\ store' = store
                 /\ OutcomeAdded
                 /\ IsRejectionFor(Last(toolMessages').content, store, caller))

C29_GuardUsesCurrentStore == [][C29_Step]_vars

\* The preload listed two tasks of the caller; one was removed since, and
\* the invocation that named it was rejected with the other one's title.
C29_Witness ==
    /\ Len(toolMessages) > 0
    /\ IsGuardEvent(Last(trace))
    /\ Last(trace).call = Len(toolMessages)
    /\ Last(trace).task_id \in PreloadedIds
    /\ Cardinality(PreloadedIds) = 2
    /\ ~Last(trace).flag
    /\ Last(toolMessages).content.kind = "task_not_found"
    /\ Len(Last(toolMessages).content.listing) = 1
    /\ IsRejectionFor(Last(toolMessages).content, store, caller)

\* C30: when an earlier invocation of the reply reported a task deleted, a
\* later complete_task, update_task or delete_task of the same reply that
\* names that task is rejected by the guard on the table the deletion
\* left: no handler is called, the table is unchanged and the outcome is
\* the guard's failure sentence for the caller's remaining tasks.
C30_Step ==
    (/\ pc = "exec"
     /\ reply.tool_calls[idx].name \in MutatingTools
     /\ EventAdded
     /\ \E i \in 1..Len(toolMessages) :
           /\ toolMessages[i].content.kind = "deleted"
           /\ TaskOf(i) = Last(trace').task_id)
    => (/\ IsGuardEvent(Last(trace'))
        /\ ~Last(trace').flag
        /\ pc' # "handler"
        /\ store' = store
        /\ OutcomeAdded
        /\ IsRejectionFor(Last(toolMessages').content, store, caller))

C30_LaterInvocationSeesDelete == [][C30_Step]_vars

\* delete_task of the caller's task succeeded as the first invocation, and
\* the second invocation, a mutating one that named the same task, was
\* rejected by the guard.
C30_Witness ==
    /\ Len(toolMessages) = 2
    /\ toolMessages[1].content.kind = "deleted"
    /\ toolMessages[2].content.kind \in {"task_not_found", "no_tasks"}
    /\ toolMessages[2].content.tool \in MutatingTools
    /\ IsGuardEvent(Last(trace))
    /\ Last(trace).call = 2
    /\ Last(trace).task_id = TaskOf(1)
    /\ store[TaskOf(1)].st = "deleted"

\* C31: when another request removed the task between the guard's fetch
\* and the handler call, the handler returns its failure flag and the
\* invocation's outcome is the error sentence with the handler's message;
\* nothing is raised, the turn goes on and no row changes.  An outcome that
\* reports a task completed, deleted or updated is produced only by a
\* handler call for a task the caller owns when the handler runs.
C31_Step ==
    /\ (/\ pc = "handler"
        /\ pc' # "handler"
        /\ ~OwnedRow(store, caller, pending.task_id))
       => (/\ OutcomeAdded
           /\ Last(toolMessages').content.kind = "handler_error"
           /\ Last(toolMessages').content.error = NotFoundOrDenied
           /\ Last(toolMessages').content.kind \notin SuccessKinds
           /\ store' = store
           /\ caught' = NoError
           /\ pc' \in {"exec", "followup"})
    /\ (/\ OutcomeAdded
        /\ Last(toolMessages').content.kind \in {"completed", "deleted", "updated"})
       => (/\ EventAdded
           /\ IsToolEvent(Last(trace'))
           /\ OwnedRow(store, caller, Last(trace').task_id)
           /\ \A id \in TaskIds \ {Last(trace').task_id} : store'[id] = store[id])

C32_Step ==
    ToolCallFetchFails
    => (/\ EventAdded
        /\ IsGuardEvent(Last(trace'))
        /\ ~Last(trace').flag
        /\ pc' \in {"exec", "followup"}
        /\ store' = store
        /\ OutcomeAdded
        /\ Last(toolMessages').content.kind = "no_tasks"
        /\ Last(toolMessages').content.kind \notin SuccessKinds
        /\ Last(toolMessages').content.tool \in MutatingTools
        /\ caught' = NoError)

C32_GuardFailsClosed == [][C32_Step]_vars

\* The invocation named a task the caller owns and was rejected all the
\* same, with the sentence for a caller without tasks: the fetch had
\* failed.
C32_Witness ==
    /\ Len(toolMessages) > 0
    /\ IsGuardEvent(Last(trace))
    /\ Last(trace).call = Len(toolMessages)
    /\ Last(trace).task_id \in OwnIds(store, caller)
    /\ ~Last(trace).flag
    /\ Last(toolMessages).content.kind = "no_tasks"
    /\ Last(toolMessages).content.tool \in MutatingTools
    /\ store = InitialStore

\* C33: an invocation that names a tool the registry does not have gets
\* the tool-not-found error as its outcome, without a handler call or a
\* write, and the loop goes on to the next invocation or, after the last
\* one, to the follow-up call.
C33_Step ==
    (ToolCall /\ ~HasTool(registry, reply.tool_calls[idx].name))
    => (/\ OutcomeAdded
        /\ Last(toolMessages').content.kind = "tool_not_found"
        /\ Last(toolMessages').content.kind \notin SuccessKinds
        /\ Last(toolMessages').tool_call_id = reply.tool_calls[idx].id
        /\ trace' = trace
        /\ store' = store
        /\ caught' = NoError
        /\ pc' = (IF idx < Len(reply.tool_calls) THEN "exec" ELSE "followup")
        /\ idx' = NextPosition(idx, Len(reply.tool_calls)))

C33_UnknownToolIsolated == [][C33_Step]_vars

\* C34: the except clause yields exactly one sentence for every exception,
\* chosen by the first class, in the order connectivity, authentication,
\* rate limit, whose marker the message carries, and the generic sentence
\* when it carries none.
C34_FirstMatch ==
    caught # NoError
    => /\ Len(response) = 1
       /\ LET msg == caught.exc.msg
              kind == response[1].kind
          IN  /\ kind \in {"connection", "credentials", "rate_limit", "generic"}
              /\ (kind = "connection") = ConnectivityMarker(msg)
              /\ (kind = "credentials") =
                    (~ConnectivityMarker(msg) /\ AuthenticationMarker(msg))
              /\ (kind = "rate_limit") =
                    (/\ ~ConnectivityMarker(msg)
                     /\ ~AuthenticationMarker(msg)
                     /\ RateLimitMarker(msg))
              /\ (kind = "generic") =
                    (/\ ~ConnectivityMarker(msg)
                     /\ ~AuthenticationMarker(msg)
                     /\ ~RateLimitMarker(msg))

\* The message carried markers of all three classes, the connectivity one
\* last, and the connectivity sentence was yielded.
C34_Witness ==
    /\ caught # NoError
    /\ caught.exc.msg = <<"r","a","t","e">> \o <<"4","0","1">>
                           \o <<"c","o","n","n","e","c","t">>
    /\ response = << Chunk("connection", None, <<>>) >>

\* The request is from the user of its path, that user's id is a UUID and
\* the conversation it names, if it names one, is that user's.
PassesChecks(r, convs) ==
    /\ r.current_user = r.user_id
    /\ r.user_id \in Users
    /\ r.conversation_id # None
          => (/\ r.conversation_id \in ConvIds
              /\ convs[r.conversation_id].st = "live"
              /\ convs[r.conversation_id].owner = r.user_id)

OtherConversationsKept(id) ==
    \A c \in ConvIds \ {id} : conversations'[c] = conversations[c]

\* C35: a chat request that passes the checks adds one user row, with the
\* sanitized message, to the conversation it names or to the one it
\* creates; nothing is stored while the message is processed; and when
\* processing has ended, however it ended, one assistant row with the
\* response is added to the same conversation, right after the user row.
\* A request that does not pass the checks is answered with an error
\* status and changes no conversation, no message and no task, and no
\* handler is called for it.
C35_Step ==
    /\ (pc = "idle" /\ PassesChecks(request', conversations))
       => LET id == conversation_id' IN
          /\ pc' = "first"
          /\ id \in ConvIds
          /\ request'.conversation_id # None => id = request'.conversation_id
          /\ request'.conversation_id = None => conversations[id].st = "free"
          /\ conversations'[id].st = "live"
          /\ conversations'[id].owner = request'.user_id
          /\ conversations'[id].rows =
                Append(conversations[id].rows,
                       [role |-> "user",
                        content |-> IF request'.message = MsgSpaced
                                    THEN MsgAdd ELSE request'.message])
          /\ OtherConversationsKept(id)
          /\ \A i \in 1..Len(trace') : ~IsToolEvent(trace'[i])
          /\ store' = store
    /\ (pc = "idle" /\ ~PassesChecks(request', conversations))
       => (/\ pc' = "idle"
           /\ status' \in {400, 403, 404}
           /\ conversations' = conversations
           /\ store' = store
           /\ trace' = trace)
    /\ (pc # "idle" /\ pc' # "idle")
       => (conversations' = conversations /\ conversation_id' = conversation_id)
    /\ (pc # "idle" /\ pc' = "idle")
       => LET id == conversation_id IN
          /\ pc = "done"
          /\ status' = 200
          /\ conversations'[id].rows =
                Append(conversations[id].rows,
                       [role |-> "assistant", content |-> response])
          /\ Last(conversations[id].rows).role = "user"
          /\ conversations'[id].owner = conversations[id].owner
          /\ OtherConversationsKept(id)

C35_OneUserOneAssistant == [][C35_Step]_vars

\* A request without conversation_id created a conversation; the provider
\* raised, and the conversation holds the user message and the assistant
\* message with the classified sentence.  A later request for the other
\* user's conversation was answered 404 and changed nothing.
C35_Witness ==
    /\ pc = "idle"
    /\ status = 404
    /\ request.conversation_id = "c2"
    /\ conversations["c2"] = InitialConversations["c2"]
    /\ conversations["c1"] = InitialConversations["c1"]
    /\ conversations["c3"].st = "live"
    /\ Len(conversations["c3"].rows) = 2
    /\ conversations["c3"].rows[1] = [role |-> "user", content |-> MsgAdd]
    /\ conversations["c3"].rows[2].role = "assistant"
    /\ Len(conversations["c3"].rows[2].content) = 1
    /\ conversations["c3"].rows[2].content[1].kind = "connection"

NoDuplicates(seq) ==
    \A i, j \in 1..Len(seq) : i # j => seq[i] # seq[j]

\* The token was issued, no reset has succeeded with it, it is held and
\* its hour is not over.
Acceptable(t) ==
    /\ \E k \in 1..issued : TokenPool[k] = t
    /\ t \notin Range(used)
    /\ Held(reset_tokens, t)
    /\ clock <= reset_tokens[t].expires

\* C36: verify and reset-password accept a token only if forgot-password
\* issued it, its hour is not over and no reset-password call has
\* succeeded with it before; a successful reset removes the token, so no
\* token succeeds twice and a used token is never held again.
C36_Step ==
    /\ (last' # last /\ last'.op \in {"verify", "reset"} /\ last'.ok)
       => Acceptable(last'.token)
    /\ Len(used') > Len(used) => Acceptable(Last(used'))
    /\ NoDuplicates(used')
    /\ \A t \in Range(used') : ~Held(reset_tokens', t)

C36_TokenSingleUse == [][C36_Step]_vars

\* A reset succeeded with a token, and a later reset-password call with
\* the same token, made before its hour was over, failed.
C36_Witness ==
    /\ Len(used) = 1
    /\ last = Call("reset", used[1], FALSE)
    /\ issued = 1
    /\ clock = 1

====
